---- MODULE Spec2Model ----
(***************************************************************************)
(* Model of the ai-model-hub proxy: the model registry (configLoader), the *)
(* request pipeline (requestHandler.handleChatCompletions), the logger     *)
(* (logger.ts) and the token counter (tokenizer).                          *)
(*                                                                         *)
(* Text is a sequence of one-character strings; a few fixed messages are   *)
(* kept as one element.  A JavaScript value that can reach a numeric test  *)
(* is a record [t, v] (type tag, integer payload).                         *)
(***************************************************************************)
EXTENDS Integers, Sequences, FiniteSets, TLC

(***************************************************************************)
(* Bounds of the model.                                                    *)
(***************************************************************************)
NReq == 2

MaxBody == 2

MaxLogLines == 2

\* the cap of the response bytes kept for the log record (1 MiB in
\* createMergedResponseStream), in bytes of the model
maxLogSize == 1

\* the entries of certs.config.json
MaxCerts == 2

\* the calls of loadModelConfigs in the life of a process
MaxLoads == 2

\* the characters of a text given to the tokenizer
MaxText == 3
MaxCacheCalls == 2
MaxTicks == 2
MaxEncoderCalls == 3

(***************************************************************************)
(* JavaScript values.                                                      *)
(***************************************************************************)
\* undefined, where the code expects text
Undef == <<"undefined">>

\* the default value of handleErrorResponse's model parameter
EmptyText == <<>>

JSUndef == [t |-> "undef", v |-> 0]

JSNull == [t |-> "null", v |-> 0]

JSNum(n) == [t |-> "num", v |-> n]

\* strings by code: 0 is "", 1 is "5" (a numeric string), 2 is "abc"
JSStr(c) == [t |-> "str", v |-> c]

JSBool(b) == [t |-> "bool", v |-> IF b THEN 1 ELSE 0]

\* the empty array []
JSEmptyArray == [t |-> "arr", v |-> 0]

\* the integer 2^53 + k of a JSON document, past the integers a double holds
JSBigNum(k) == [t |-> "bignum", v |-> k]

\* JSON.parse on a value of the request body: a number becomes the nearest
\* double (between 2^53 and 2^54 the doubles are the even integers, a tie
\* goes to the even significand); every other value is kept
JSONParseValue(x) ==
    IF x.t = "bignum"
    THEN CASE x.v % 4 = 1 -> [x EXCEPT !.v = @ - 1]
           [] x.v % 4 = 3 -> [x EXCEPT !.v = @ + 1]
           [] OTHER -> x
    ELSE x

\* ECMAScript ToNumber, as isNaN() and the >= operator apply it;
\* [nan |-> TRUE] is NaN
ToNumber(x) ==
    CASE x.t = "num" -> [nan |-> FALSE, n |-> x.v]
      [] x.t = "undef" -> [nan |-> TRUE, n |-> 0]
      [] x.t = "null" -> [nan |-> FALSE, n |-> 0]
      [] x.t = "bool" -> [nan |-> FALSE, n |-> x.v]
      [] x.t = "arr" -> [nan |-> FALSE, n |-> 0]
      [] x.t = "str" ->
            IF x.v = 0 THEN [nan |-> FALSE, n |-> 0]
            ELSE IF x.v = 1 THEN [nan |-> FALSE, n |-> 5]
            ELSE [nan |-> TRUE, n |-> 0]

\* the global isNaN(x)
IsNaN(x) == ToNumber(x).nan

\* x >= 0 (false when either side converts to NaN)
GreaterEqZero(x) == ~ToNumber(x).nan /\ ToNumber(x).n >= 0

(***************************************************************************)
(* Model registry: configLoader.loadModelConfigs.                          *)
(*                                                                         *)
(* A parsed configuration is the sequence Object.entries(config) of        *)
(* provider records.  A provider record holds baseUrl, completionsPath,    *)
(* hasModels (the models field is present), models (its entries) and       *)
(* others (the entries of every key of the provider outside baseUrl,       *)
(* completionsPath, apiKey, customHeader and models).                      *)
(***************************************************************************)
Slash == "/"

\* the template `${provider}/${modelKey}`
FullModelId(provider, modelKey) == provider \o <<Slash>> \o modelKey

\* the models table the loader reads for one provider
ModelsOf(providerConfig) ==
    IF providerConfig.hasModels THEN providerConfig.models
    ELSE providerConfig.others

\* the registry entries one provider contributes, in iteration order
ProviderEntries(p) ==
    [i \in 1..Len(ModelsOf(p)) |->
        [id |-> FullModelId(p.name, ModelsOf(p)[i].key),
         config |-> [baseUrl |-> p.baseUrl,
                     completionsPath |-> p.completionsPath,
                     modelName |-> ModelsOf(p)[i].modelName,
                     temperature |-> ModelsOf(p)[i].temperature]]]

RECURSIVE AllEntries(_)
AllEntries(config) ==
    IF config = <<>> THEN <<>>
    ELSE ProviderEntries(Head(config)) \o AllEntries(Tail(config))

\* the last assignment to a key is the one that stays
LastIndexOf(entries, id) ==
    CHOOSE i \in 1..Len(entries) :
        /\ entries[i].id = id
        /\ \A j \in (i+1)..Len(entries) : entries[j].id # id

\* modelConfigs after loadModelConfigs has run on config
LoadModelConfigs(config) ==
    LET entries == AllEntries(config)
        ids == {entries[i].id : i \in 1..Len(entries)}
    IN  [id \in ids |-> entries[LastIndexOf(entries, id)].config]

\* providerConfigs after loadModelConfigs has run on config
LoadProviderConfigs(config) ==
    LET names == {config[i].name : i \in 1..Len(config)}
    IN  [n \in names |->
            config[CHOOSE i \in 1..Len(config) :
                      /\ config[i].name = n
                      /\ \A j \in (i+1)..Len(config) : config[j].name # n]]

\* modelConfigs is a plain object literal: a property read also finds the
\* members of Object.prototype
ObjectPrototypeKeys ==
    { <<"c","o","n","s","t","r","u","c","t","o","r">>,
      <<"t","o","S","t","r","i","n","g">> }

\* what a member of Object.prototype looks like to the handler: an object
\* without modelName, temperature, baseUrl or completionsPath
PrototypeMember ==
    [baseUrl |-> Undef, completionsPath |-> Undef,
     modelName |-> Undef, temperature |-> JSUndef]

\* the test and the read of requestHandler: inModelName = body.model;
\* if (!inModelName || !modelConfigs[inModelName]) throw ...
ResolveModel(mc, inModelName) ==
    IF inModelName = Undef \/ inModelName = <<>> THEN [ok |-> FALSE, config |-> PrototypeMember]
    ELSE IF inModelName \in DOMAIN mc THEN [ok |-> TRUE, config |-> mc[inModelName]]
    ELSE IF inModelName \in ObjectPrototypeKeys THEN [ok |-> TRUE, config |-> PrototypeMember]
    ELSE [ok |-> FALSE, config |-> PrototypeMember]

\* inModelName.split('/')[0]
RECURSIVE ProviderNameOf(_)
ProviderNameOf(id) ==
    IF id = <<>> \/ Head(id) = Slash THEN <<>>
    ELSE <<Head(id)>> \o ProviderNameOf(Tail(id))

RECURSIVE CountSlashes(_)
CountSlashes(id) ==
    IF id = <<>> THEN 0
    ELSE (IF Head(id) = Slash THEN 1 ELSE 0) + CountSlashes(Tail(id))

(***************************************************************************)
(* Text conversions.                                                       *)
(***************************************************************************)
\* the bytes an upstream body is made of: a digit, a double quote, and a
\* byte that is not valid UTF-8
BodyBytes == {"1", "QUOTE", "BAD"}

\* Buffer.toString('utf8'): an invalid byte decodes to U+FFFD
DecodeByte(b) == IF b = "BAD" THEN "FFFD" ELSE b

BufferToString(bytes) == [i \in 1..Len(bytes) |-> DecodeByte(bytes[i])]

\* JSON.parse succeeds on a text over these characters when it is a number
\* (digits only) or a string literal (quote, no inner quote, quote)
IsJSONText(text) ==
    \/ /\ Len(text) >= 1
       /\ \A i \in 1..Len(text) : text[i] = "1"
    \/ /\ Len(text) >= 2
       /\ text[1] = "QUOTE"
       /\ text[Len(text)] = "QUOTE"
       /\ \A i \in 2..(Len(text) - 1) : text[i] # "QUOTE"

\* the characters JSON.stringify writes for a string value
RECURSIVE EscapeChars(_)
EscapeChars(text) ==
    IF text = <<>> THEN <<>>
    ELSE (IF Head(text) = "QUOTE" THEN <<"BACKSLASH", "QUOTE">> ELSE <<Head(text)>>)
         \o EscapeChars(Tail(text))

QuoteString(text) == <<"QUOTE">> \o EscapeChars(text) \o <<"QUOTE">>

\* JSON.stringify({error, model, status})
StringifyErrorResponse(e) ==
    <<"{", "QUOTE", "error", "QUOTE", ":">> \o QuoteString(e.error)
    \o <<",", "QUOTE", "model", "QUOTE", ":">> \o QuoteString(e.model)
    \o <<",", "QUOTE", "status", "QUOTE", ":", ToString(e.status), "}">>

\* content types, and String.includes on them
ContentTypeJson == "application/json"

ContentTypeText == "text/plain"

ContentTypeBinary == "application/octet-stream"

\* no content-type header
ContentTypeNone == "undefined"

IncludesApplicationJson(ct) == ct = ContentTypeJson

IncludesText(ct) == ct = ContentTypeText

(***************************************************************************)
(* Token counting: tokenizer.countTokens / countTokensAsync.                *)
(***************************************************************************)
\* new LRUCache<string, Tiktoken>(100)
EncoderCacheMaxSize == 100

\* the i-th of the further model names tiktoken knows
NumberedModel(i) == [j \in 1..i |-> "e"]

\* the models tiktoken's encoding_for_model knows: more of them than the
\* encoder cache holds
TiktokenModels == { <<"g","p","t">> } \cup {NumberedModel(i) : i \in 1..(EncoderCacheMaxSize + 1)}

\* encoder.encode(text).length: the tokenizer is a black box text -> count;
\* here one token per two characters, rounded up
EncodeLength(text) == (Len(text) + 1) \div 2

\* getEncoder(model): encoding_for_model throws for a name it does not know
GetEncoderThrows(model) == model \notin TiktokenModels

\* LRUCache: the Map's keys in insertion order (the value of a key is the
\* encoder of that model)
LRUHas(cache, key) == \E i \in 1..Len(cache) : cache[i] = key

\* LRUCache.get with the bug of leaving a hit where it is in the order
LRUGetWithoutReorder(cache, key) == [cache |-> cache, hit |-> LRUHas(cache, key)]

\* LRUCache.get: a hit is deleted and set again, which moves it to the end
LRUGet(cache, key) ==
    IF LRUHas(cache, key)
    THEN [cache |-> Append(SelectSeq(cache, LAMBDA k : k # key), key), hit |-> TRUE]
    ELSE [cache |-> cache, hit |-> FALSE]

\* LRUCache.set: at maxSize the first key is deleted (there is none in an
\* empty Map); Map.set leaves a key it already holds in its place
LRUSet(cache, key, maxSize) ==
    LET kept == IF Len(cache) >= maxSize /\ cache # <<>> THEN Tail(cache) ELSE cache
    IN  IF LRUHas(kept, key) THEN kept ELSE Append(kept, key)

\* getEncoder with the bug of never storing the encoder it constructed
GetEncoderWithoutSet(cache, model) == [cache |-> cache, attempted |-> TRUE, threw |-> GetEncoderThrows(model)]

\* getEncoder(model): the cache afterwards, whether encoding_for_model was
\* called and whether it threw
GetEncoder(cache, model) ==
    LET got == LRUGet(cache, model)
    IN  IF got.hit THEN [cache |-> got.cache, attempted |-> FALSE, threw |-> FALSE]
        ELSE IF GetEncoderThrows(model)
        THEN [cache |-> got.cache, attempted |-> TRUE, threw |-> TRUE]
        ELSE [cache |-> LRUSet(got.cache, model, EncoderCacheMaxSize),
              attempted |-> TRUE, threw |-> FALSE]

\* the text of a special token, which encoder.encode refuses
SpecialToken == "<|endoftext|>"

EncodeThrows(text) == \E i \in 1..Len(text) : text[i] = SpecialToken

\* the try block of countTokens and of countTokensAsync's callback
TryCount(text, model) ==
    IF GetEncoderThrows(model) \/ EncodeThrows(text)
    THEN [threw |-> TRUE, value |-> 0]
    ELSE [threw |-> FALSE, value |-> EncodeLength(text)]

\* countTokens with the bug of no catch block
CountTokensWithoutCatch(text, model) == TryCount(text, model)

\* countTokens, and the callback of countTokensAsync: the catch block
\* answers text.length
CountTokensResult(text, model) ==
    IF TryCount(text, model).threw
    THEN [threw |-> FALSE, value |-> Len(text)]
    ELSE TryCount(text, model)

\* the result of countTokens and of countTokensAsync's callback: the
\* encoder's count, or text.length when getEncoder or encode throws
CountTokens(text, model) == CountTokensResult(text, model).value

\* countTokensAsync with the bug of counting inside the promise executor
CountTokensAsyncInTurn(text, model) == [immediate |-> FALSE, computed |-> TRUE]

\* countTokensAsync as its caller sees it return: nothing is counted yet,
\* the count is left to a setImmediate callback
CountTokensAsync(text, model) == [immediate |-> TRUE, computed |-> FALSE]

(***************************************************************************)
(* Objects of the logger.  A token field that is undefined is              *)
(* UndefinedNum; JSON.stringify leaves such a key out.                     *)
(***************************************************************************)
UndefinedNum == -1

EmptyObject == [k \in {} |-> UndefinedNum]

\* object spread { ...a, ...b }
Spread(a, b) ==
    [k \in (DOMAIN a) \cup (DOMAIN b) |-> IF k \in DOMAIN b THEN b[k] ELSE a[k]]

\* the keys JSON.stringify writes
DropUndefined(o) ==
    [k \in {x \in DOMAIN o : o[x] # UndefinedNum} |-> o[k]]

\* a number used as a condition
Truthy(n) == n # UndefinedNum /\ n # 0

(***************************************************************************)
(* Upstream response bodies on the wire.                                   *)
(***************************************************************************)
\* a compressed body: the marker of the coding, then the payload
Compress(encoding, bytes) ==
    IF encoding \in {"gzip", "deflate", "br"} THEN <<encoding>> \o bytes ELSE bytes

\* zlib.createGunzip() / zlib.createInflate() on a well-formed stream
Gunzip(wire) == Tail(wire)

Inflate(wire) == Tail(wire)

\* outputStream with the bug of piping the upstream's bytes as they are
OutputStreamNotDecoded(proxyResp) == proxyResp.wire

\* outputStream of the response callback
OutputStream(proxyResp) ==
    IF proxyResp.contentEncoding = "gzip" THEN Gunzip(proxyResp.wire)
    ELSE IF proxyResp.contentEncoding = "deflate" THEN Inflate(proxyResp.wire)
    ELSE proxyResp.wire

(***************************************************************************)
(* State.                                                                  *)
(***************************************************************************)
VARIABLES
    listening,        \* server.listen has been called (startServer)
    modelConfigs,     \* configLoader.modelConfigs
    providerConfigs,  \* configLoader.providerConfigs
    rq,               \* per request: the locals of handleChatCompletions
    clientResp,       \* per request: the response object of the client
    pendingLogs,      \* logger.pendingLogs
    uuidCounter,      \* how many request ids randomUUID has produced
    writes,           \* per log write: the position of writeLog and its line
    logFile,          \* logs/requests.log, as the lines in it (<<>>: no file)
    rotated,          \* the rotated files requests_<timestamp>.log, oldest first
    crashed,          \* the process died of an uncaught exception
    route,            \* one request in the server's request listener (server.ts)
    hdr,              \* one run of the outbound header construction
    caCerts,          \* configLoader.caCerts
    conn,             \* one upstream connection set up with setupCA
    certsFile,        \* config/certs.config.json as the loader finds it
    modelFile,        \* config/model.config.json as loadModelConfigs last found it
    certLoad,         \* a running loadCACerts: the entry whose file it is reading
    tokenCall,        \* one call of countTokens or countTokensAsync
    requestDataCache, \* requestDataProcessor.requestDataCache: its entries, oldest first
    responseDataCache, \* requestDataProcessor.responseDataCache, likewise
    clock,            \* Date.now(), in ms since the process started
    cacheCall,        \* the last call of requestDataProcessor that is followed
    encoderCache,     \* tokenizer's encoderCache: its keys, least recently used first
    encoderCall       \* the calls of getEncoder and countTokens that are followed

\* the state the pipeline's callbacks never touch
auxVars == <<route, hdr, caCerts, conn, certsFile, modelFile, certLoad, tokenCall, requestDataCache,
             responseDataCache, clock, cacheCall, encoderCache, encoderCall>>

vars == <<listening, modelConfigs, providerConfigs, rq, clientResp, pendingLogs,
          uuidCounter, writes, logFile, rotated, crashed, route, hdr, caCerts, conn,
          certsFile, modelFile, certLoad, tokenCall, requestDataCache,
                   responseDataCache, clock, cacheCall, encoderCache, encoderCall>>

\* no request in the listener, no header construction, an empty certificate
\* table, no connection
NoRoute == [pc |-> "none"]

NoHdr == [pc |-> "none"]

NoConn == [pc |-> "none"]

\* there is no certs.config.json: readFile fails with ENOENT
NoCertsFile == [kind |-> "ENOENT", entries |-> <<>>]

\* loadModelConfigs has not been followed; no loadCACerts is running
NoModelFile == [kind |-> "none", providers |-> <<>>, loads |-> 0]

NoCertLoad == [pc |-> "idle"]

\* no call of the tokenizer is followed
NoTok == [pc |-> "none"]

\* no call of requestDataProcessor or of getEncoder is followed
NoCacheCall == [pc |-> "none"]

NoEncoderCall == [pc |-> "none"]

\* the process has just started: nothing is cached
InitCaches ==
    /\ responseDataCache = <<>>
    /\ clock = 0
    /\ cacheCall = NoCacheCall
    /\ encoderCache = <<>>
    /\ encoderCall = NoEncoderCall

InitAux ==
    /\ route = NoRoute
    /\ hdr = NoHdr
    /\ caCerts = <<>>
    /\ conn = NoConn
    /\ certsFile = NoCertsFile
    /\ modelFile = NoModelFile
    /\ certLoad = NoCertLoad
    /\ tokenCall = NoTok
    /\ requestDataCache = <<>>
    /\ InitCaches

Reqs == 1..NReq

ChainKeys == Reqs \X {"request", "response"}

\* a line that was in the log file when the server started
OldLine == <<0, "old">>

UnknownText == <<"u","n","k","n","o","w","n">>

NoBody ==
    [validJson |-> FALSE, model |-> Undef, temperature |-> JSUndef, promptText |-> <<>>,
     seed |-> JSUndef]

NoOutbound ==
    [sent |-> FALSE, model |-> Undef, temperature |-> JSUndef,
     promptText |-> <<>>, seed |-> JSUndef, url |-> <<>>, requestId |-> 0]

NoResp ==
    [statusCode |-> 0, contentType |-> ContentTypeNone,
     contentEncoding |-> "identity", wire |-> <<>>]

NoLine ==
    [kind |-> "none", requestId |-> 0, model |-> Undef, temperature |-> JSUndef,
     status |-> 0, response |-> [form |-> "string", text |-> <<>>],
     isBinary |-> FALSE, tokens |-> EmptyObject]

InitRq ==
    [pc |-> "waiting", body |-> NoBody, config |-> PrototypeMember,
     actualModelName |-> UnknownText, requestId |-> 0,
     promptTokens |-> 0, completionTokens |-> 0,
     outbound |-> NoOutbound, proxyResp |-> NoResp,
     delivered |-> 0, responseData |-> <<>>, accumulatedResponse |-> <<>>,
     timeoutFired |-> FALSE, clientTimeoutFired |-> FALSE, logResponseCalls |-> 0,
     immPrompt |-> FALSE, immFlush |-> FALSE, immTokens |-> FALSE,
     promptAt |-> "none", completionAt |-> "none", xRequestId |-> 0]

InitClientResp ==
    [headersSent |-> FALSE, statusCode |-> 0, contentType |-> ContentTypeNone,
     contentEncoding |-> "identity", body |-> <<>>, writeHeadCalls |-> 0,
     finished |-> FALSE, destroyed |-> FALSE]

(***************************************************************************)
(* Maps (JavaScript Map objects) as functions.                             *)
(***************************************************************************)
MapSet(m, k, v) == [x \in (DOMAIN m) \cup {k} |-> IF x = k THEN v ELSE m[x]]

MapDelete(m, k) == [x \in (DOMAIN m) \ {k} |-> m[x]]

\* m.get(k) || {}
MapGetOrEmpty(m, k) == IF k \in DOMAIN m THEN m[k] ELSE EmptyObject

(***************************************************************************)
(* requestHandler.handleErrorResponse.                                     *)
(***************************************************************************)
UnknownModelMessage(inModelName) == <<"Unsupported or Unknown Model: ">> \o inModelName

InvalidJsonMessage == <<"Invalid JSON body">>

UrlTypeErrorMessage == <<"The url argument must be of type string. Received type number (NaN)">>

TimeoutMessage == <<"Connection to upstream service (LLM/VLM API) timed out">>

ConnErrorMessage == <<"connect ECONNREFUSED">>

ClientTimeoutMessage == <<"Response timeout">>

\* handleErrorResponse with the bug of ignoring its statusCode argument
HandleErrorResponseAlways500(resp, errorMessage, model, statusCode, contentType) ==
    IF ~resp.headersSent
    THEN [resp EXCEPT
            !.headersSent = TRUE,
            !.statusCode = 500,
            !.contentType = IF contentType = ContentTypeNone THEN ContentTypeJson ELSE contentType,
            !.body = StringifyErrorResponse(
                        [error |-> errorMessage,
                         model |-> IF model = Undef THEN EmptyText ELSE model,
                         status |-> 500]),
            !.writeHeadCalls = @ + 1,
            !.finished = TRUE]
    ELSE [resp EXCEPT !.destroyed = TRUE]

\* model = '' and contentType = 'application/json' are the defaults that
\* replace an undefined argument
HandleErrorResponse(resp, errorMessage, model, statusCode, contentType) ==
    IF ~resp.headersSent
    THEN [resp EXCEPT
            !.headersSent = TRUE,
            !.statusCode = statusCode,
            !.contentType = IF contentType = ContentTypeNone THEN ContentTypeJson ELSE contentType,
            !.body = StringifyErrorResponse(
                        [error |-> errorMessage,
                         model |-> IF model = Undef THEN EmptyText ELSE model,
                         status |-> statusCode]),
            !.writeHeadCalls = @ + 1,
            !.finished = TRUE]
    ELSE [resp EXCEPT !.destroyed = TRUE]

(***************************************************************************)
(* logger.ts: logRequestBody, updateLogEntry, logResponse.                 *)
(***************************************************************************)
BinaryDataText == <<"<binary-data>">>

MalformedJsonText == <<"<malformed-json-data>">>

\* logRequestBody with the bug of serializing the entry when the write
\* runs, after the handler has rewritten the body it refers to
RequestLogEntryAtWrite(requestId, parsedReqBody) ==
    LET config == ResolveModel(modelConfigs, parsedReqBody.model).config
    IN  [kind |-> "request", requestId |-> requestId,
         model |-> config.modelName,
         temperature |-> IF ~IsNaN(parsedReqBody.temperature) /\ GreaterEqZero(parsedReqBody.temperature)
                         THEN parsedReqBody.temperature ELSE config.temperature,
         status |-> 0, response |-> [form |-> "string", text |-> <<>>],
         isBinary |-> FALSE, tokens |-> EmptyObject]

\* the log entry logRequestBody serializes, with JSON.stringify, before it
\* returns
RequestLogEntry(requestId, parsedReqBody) ==
    [kind |-> "request", requestId |-> requestId,
     model |-> parsedReqBody.model, temperature |-> parsedReqBody.temperature,
     status |-> 0, response |-> [form |-> "string", text |-> <<>>],
     isBinary |-> FALSE, tokens |-> EmptyObject]

\* pendingLogs after updateLogEntry(requestId, updates)
UpdateLogEntry(pending, requestId, updates) ==
    MapSet(pending, requestId, Spread(MapGetOrEmpty(pending, requestId), updates))

\* logResponse with the bug of writing `completionTokens || undefined`
LogResponseEntryFalsyDropped(responseData, contentType, requestId, statusCode, promptTokens, completionTokens, pendingUpdate) ==
    LET isBinary == ~IncludesApplicationJson(contentType) /\ ~IncludesText(contentType)
        explicit == [promptTokens |-> promptTokens,
                     completionTokens |-> IF Truthy(completionTokens) THEN completionTokens
                                          ELSE UndefinedNum,
                     totalTokens |-> IF Truthy(promptTokens) /\ Truthy(completionTokens)
                                     THEN promptTokens + completionTokens
                                     ELSE UndefinedNum]
    IN  [kind |-> "response", requestId |-> requestId,
         model |-> Undef, temperature |-> JSUndef,
         status |-> statusCode,
         response |-> IF isBinary THEN [form |-> "string", text |-> BinaryDataText]
                      ELSE responseData,
         isBinary |-> isBinary,
         tokens |-> DropUndefined(Spread(pendingUpdate, explicit))]

\* the log entry logResponse serializes: the pending update is spread first,
\* the three token keys are written after it
LogResponseEntry(responseData, contentType, requestId, statusCode, promptTokens, completionTokens, pendingUpdate) ==
    LET isBinary == ~IncludesApplicationJson(contentType) /\ ~IncludesText(contentType)
        explicit == [promptTokens |-> promptTokens,
                     completionTokens |-> completionTokens,
                     totalTokens |-> IF Truthy(promptTokens) /\ Truthy(completionTokens)
                                     THEN promptTokens + completionTokens
                                     ELSE UndefinedNum]
    IN  [kind |-> "response", requestId |-> requestId,
         model |-> Undef, temperature |-> JSUndef,
         status |-> statusCode,
         response |-> IF isBinary THEN [form |-> "string", text |-> BinaryDataText]
                      ELSE responseData,
         isBinary |-> isBinary,
         tokens |-> DropUndefined(Spread(pendingUpdate, explicit))]

\* logPromise with the bug of logging the captured text whatever it is
ResponseToLogAsText(contentType, responseData) == BufferToString(responseData)

\* logPromise of flush: what it hands to logResponse
ResponseToLog(contentType, responseData) ==
    LET text == BufferToString(responseData)
        isBinary == ~IncludesApplicationJson(contentType) /\ ~IncludesText(contentType)
    IN  IF isBinary THEN BinaryDataText
        ELSE IF IncludesApplicationJson(contentType) /\ ~IsJSONText(text)
        THEN MalformedJsonText
        ELSE text

\* writeLog(line) has been called: its chain starts at ensureLogDir
StartWrite(w, key, line) == [w EXCEPT ![key] = [pc |-> "mkdir", line |-> line]]

(***************************************************************************)
(* requestHandler.handleChatCompletions, one action per turn of the event  *)
(* loop.                                                                   *)
(***************************************************************************)
\* CACHE_CONFIG.maxSize of requestDataProcessor
CacheMaxSize == 1000

\* CACHE_CONFIG.ttl, in ms
CacheTtl == 5 * 60 * 1000

\* request ids are numbered in the model; this one stands for the empty
\* string, the one string that is false as a condition
EmptyKey == 0

\* what getCachedRequestData returns for no entry
NullEntry == [requestId |-> EmptyKey, timestamp |-> -1]

\* a cache is the sequence of the Map's entries in insertion order, each
\* with its key and its timestamp
CacheHas(cache, requestId) == \E i \in 1..Len(cache) : cache[i].requestId = requestId

CacheGet(cache, requestId) == cache[CHOOSE i \in 1..Len(cache) : cache[i].requestId = requestId]

CacheDelete(cache, requestId) == SelectSeq(cache, LAMBDA e : e.requestId # requestId)

\* if (cache.size >= maxSize) { firstKey = keys().next().value;
\*                              if (firstKey) cache.delete(firstKey) }
EvictAtCapacity(cache) ==
    IF Len(cache) >= CacheMaxSize /\ Head(cache).requestId # EmptyKey
    THEN Tail(cache)
    ELSE cache

\* processRequestData(requestId, ...) at time now: the cache afterwards, the
\* entry returned and whether it was computed anew.  An entry younger than
\* the ttl is returned as it is; an older one is deleted; at maxSize the
\* first key is deleted; the new entry is set last
ProcessRequestData(cache, requestId, now) ==
    LET hit == /\ CacheHas(cache, requestId)
               /\ now - CacheGet(cache, requestId).timestamp < CacheTtl
        entry == [requestId |-> requestId, timestamp |-> now]
    IN  IF hit
        THEN [cache |-> cache, returned |-> CacheGet(cache, requestId), computed |-> FALSE]
        ELSE [cache |-> Append(EvictAtCapacity(CacheDelete(cache, requestId)), entry),
              returned |-> entry, computed |-> TRUE]

\* processResponseData: the same steps on responseDataCache
ProcessResponseData(cache, requestId, now) ==
    LET hit == /\ CacheHas(cache, requestId)
               /\ now - CacheGet(cache, requestId).timestamp < CacheTtl
        entry == [requestId |-> requestId, timestamp |-> now]
    IN  IF hit
        THEN [cache |-> cache, returned |-> CacheGet(cache, requestId), computed |-> FALSE]
        ELSE [cache |-> Append(EvictAtCapacity(CacheDelete(cache, requestId)), entry),
              returned |-> entry, computed |-> TRUE]

\* getCachedRequestData / getCachedResponseData at time now
GetCachedData(cache, requestId, now) ==
    IF CacheHas(cache, requestId) /\ now - CacheGet(cache, requestId).timestamp < CacheTtl
    THEN CacheGet(cache, requestId)
    ELSE NullEntry

\* the timer's loop with the bug of deleting only when the cache is full
SweepCacheAtCapacity(cache, now) ==
    IF Len(cache) >= CacheMaxSize
    THEN SelectSeq(cache, LAMBDA e : ~(now - e.timestamp > CacheTtl))
    ELSE cache

\* one loop of the setInterval callback over a cache at time now
SweepCache(cache, now) == SelectSeq(cache, LAMBDA e : ~(now - e.timestamp > CacheTtl))

\* randomUUID with the bug of giving the same value again
RandomUUIDRepeated(counter) == 1

\* randomUUID() of logRequestBody: a value no earlier call has returned
RandomUUID(counter) == counter + 1

\* modelTemperature = !isNaN(t) && t >= 0 ? t : config.temperature
EffectiveTemperature(temperature, default) ==
    IF ~IsNaN(temperature) /\ GreaterEqZero(temperature) THEN temperature ELSE default

\* url.parse(config.baseUrl + config.completionsPath) throws when the sum
\* is not a string: undefined + undefined is NaN
UrlParseThrows(config) == config.baseUrl = Undef /\ config.completionsPath = Undef

\* the catch block of handleChatCompletions
CatchError(r, message, model) ==
    clientResp' = [clientResp EXCEPT ![r] =
                      HandleErrorResponse(@, message, model, 500, ContentTypeJson)]

\* the request body has arrived: parse, resolve the model, log the request,
\* schedule the prompt-token count, rewrite the body and send it upstream.
\* A body of `bodies` is the JSON document the client sent, field by field;
\* seed stands for any field the handler does not rewrite.
HandleChatCompletions(r, bodies) ==
    /\ ~crashed
    /\ listening
    /\ rq[r].pc = "waiting"
    /\ \E parsedReqBody \in bodies :
        LET res == ResolveModel(modelConfigs, parsedReqBody.model)
            config == res.config
            actualModelName == config.modelName
            requestId == RandomUUID(uuidCounter)
            modelTemperature == EffectiveTemperature(parsedReqBody.temperature, config.temperature)
        IN
        IF ~parsedReqBody.validJson
        THEN /\ CatchError(r, InvalidJsonMessage, UnknownText)
             /\ rq' = [rq EXCEPT ![r].pc = "rejected"]
             /\ UNCHANGED <<pendingLogs, uuidCounter, writes, requestDataCache>>
        ELSE IF ~res.ok
        THEN /\ CatchError(r, UnknownModelMessage(parsedReqBody.model), UnknownText)
             /\ rq' = [rq EXCEPT ![r].pc = "rejected", ![r].body = parsedReqBody]
             /\ UNCHANGED <<pendingLogs, uuidCounter, writes, requestDataCache>>
        ELSE /\ uuidCounter' = requestId
             /\ requestDataCache' =
                   ProcessRequestData(requestDataCache, requestId, clock).cache
             /\ pendingLogs' = MapSet(pendingLogs, requestId, EmptyObject)
             /\ writes' = StartWrite(writes, <<r, "request">>,
                                     RequestLogEntry(requestId, parsedReqBody))
             /\ rq' = [rq EXCEPT ![r] =
                   [@ EXCEPT
                      !.pc = IF UrlParseThrows(config) THEN "rejected" ELSE "forwarded",
                      !.body = parsedReqBody,
                      !.config = config,
                      !.actualModelName = actualModelName,
                      !.requestId = requestId,
                      !.immPrompt = /\ parsedReqBody.promptText # <<>>
                                    /\ CountTokensAsync(parsedReqBody.promptText,
                                                        actualModelName).immediate,
                      !.promptAt = IF /\ parsedReqBody.promptText # <<>>
                                      /\ CountTokensAsync(parsedReqBody.promptText,
                                                          actualModelName).computed
                                   THEN "handler" ELSE "none",
                      !.outbound =
                         IF UrlParseThrows(config) THEN NoOutbound
                         ELSE [sent |-> TRUE,
                               model |-> actualModelName,
                               temperature |-> modelTemperature,
                               promptText |-> parsedReqBody.promptText,
                               seed |-> JSONParseValue(parsedReqBody.seed),
                               url |-> config.baseUrl \o config.completionsPath,
                               requestId |-> requestId]]]
             /\ IF UrlParseThrows(config)
                THEN CatchError(r, UrlTypeErrorMessage, actualModelName)
                ELSE UNCHANGED clientResp
    /\ UNCHANGED <<listening, modelConfigs, providerConfigs, logFile, rotated, crashed>>
    /\ UNCHANGED <<route, hdr, caCerts, conn, certsFile, modelFile, certLoad, tokenCall,
                   responseDataCache, clock, cacheCall, encoderCache, encoderCall>>

\* the setInterval callback of requestDataProcessor beside the pipeline,
\* where the clock is not followed: every entry older than CACHE_CONFIG.ttl
\* is deleted; the entries are in the order of their timestamps, so the
\* expired ones are the first k
SweepExpired ==
    /\ ~crashed
    /\ \E k \in 1..Len(requestDataCache) :
          requestDataCache' = SubSeq(requestDataCache, k + 1, Len(requestDataCache))
    /\ UNCHANGED <<listening, modelConfigs, providerConfigs, rq, clientResp, pendingLogs,
                   uuidCounter, writes, logFile, rotated, crashed>>
    /\ UNCHANGED <<route, hdr, caCerts, conn, certsFile, modelFile, certLoad, tokenCall,
                   responseDataCache, clock, cacheCall, encoderCache, encoderCall>>

\* the setImmediate callback of countTokensAsync for the prompt, and the
\* then-callback that stores the count
PromptTokensImmediate(r) ==
    /\ ~crashed
    /\ rq[r].immPrompt
    /\ LET n == CountTokens(rq[r].body.promptText, rq[r].actualModelName)
       IN  /\ rq' = [rq EXCEPT ![r].immPrompt = FALSE, ![r].promptTokens = n,
                                ![r].promptAt = "later"]
           /\ pendingLogs' = UpdateLogEntry(pendingLogs, rq[r].requestId, [promptTokens |-> n])
    /\ UNCHANGED <<listening, modelConfigs, providerConfigs, clientResp, uuidCounter,
                   writes, logFile, rotated, crashed>>
    /\ UNCHANGED auxVars

Is2xx(statusCode) == statusCode >= 200 /\ statusCode < 300

\* the response callback of http.request: the upstream's status line and
\* headers have arrived
UpstreamResponse(r, responses) ==
    /\ ~crashed
    /\ rq[r].pc = "forwarded"
    /\ ~rq[r].immPrompt
    /\ \E proxyResp \in responses :
        IF ~Is2xx(proxyResp.statusCode)
        THEN /\ rq' = [rq EXCEPT ![r].pc = "errorBody", ![r].proxyResp = proxyResp,
                                 ![r].xRequestId = rq[r].requestId]
             /\ UNCHANGED <<clientResp, crashed>>
        ELSE IF clientResp[r].headersSent
        THEN \* clientResp.writeHead throws ERR_HTTP_HEADERS_SENT in the callback
             /\ crashed' = TRUE
             /\ rq' = [rq EXCEPT ![r].proxyResp = proxyResp,
                                 ![r].xRequestId = rq[r].requestId]
             /\ UNCHANGED clientResp
        ELSE /\ rq' = [rq EXCEPT ![r].pc = "streaming", ![r].proxyResp = proxyResp,
                                 ![r].xRequestId = rq[r].requestId]
             /\ clientResp' = [clientResp EXCEPT ![r] =
                                 [@ EXCEPT !.headersSent = TRUE,
                                           !.statusCode = proxyResp.statusCode,
                                           !.contentType = proxyResp.contentType,
                                           !.contentEncoding = proxyResp.contentEncoding,
                                           !.writeHeadCalls = @ + 1]]
             /\ UNCHANGED crashed
    /\ UNCHANGED <<listening, modelConfigs, providerConfigs, pendingLogs, uuidCounter,
                   writes, logFile, rotated>>
    /\ UNCHANGED auxVars

\* the response callback with the bug of no `return` in the non-2xx branch
PipedToClientAlways(statusCode) == TRUE

\* does the response callback go on to pipe outputStream into the merged
\* stream: the non-2xx branch returns before that
PipedToClient(statusCode) == Is2xx(statusCode)

\* the 'end' listener of the non-2xx branch: log the response, relay the
\* error; the merged stream's flush follows the end only if it was piped
ErrorBodyEnd(r) ==
    /\ ~crashed
    /\ rq[r].pc = "errorBody"
    /\ LET proxyResp == rq[r].proxyResp
           respondData == BufferToString(OutputStream(proxyResp))
           toLog == IF IsJSONText(respondData)
                    THEN [form |-> "json", text |-> respondData]
                    ELSE [form |-> "string", text |-> BinaryDataText]
           line == LogResponseEntry(toLog, proxyResp.contentType, rq[r].xRequestId,
                                    proxyResp.statusCode, rq[r].promptTokens, 0,
                                    MapGetOrEmpty(pendingLogs, rq[r].xRequestId))
       IN  /\ pendingLogs' = MapDelete(pendingLogs, rq[r].xRequestId)
           /\ writes' = StartWrite(writes, <<r, "response">>, line)
           /\ clientResp' = [clientResp EXCEPT ![r] =
                 HandleErrorResponse(@, respondData, rq[r].actualModelName,
                                     proxyResp.statusCode, proxyResp.contentType)]
           /\ rq' = [rq EXCEPT ![r].pc = "ended", ![r].logResponseCalls = @ + 1,
                                ![r].immFlush = PipedToClient(proxyResp.statusCode)]
    /\ UNCHANGED <<listening, modelConfigs, providerConfigs, uuidCounter,
                   logFile, rotated, crashed>>
    /\ UNCHANGED auxVars

\* createMergedResponseStream.transform: one chunk of the 2xx body passes
StreamChunk(r) ==
    /\ ~crashed
    /\ rq[r].pc = "streaming"
    /\ LET out == OutputStream(rq[r].proxyResp)
       IN  /\ rq[r].delivered < Len(out)
           /\ \E k \in 1..(Len(out) - rq[r].delivered) :
                LET chunk == SubSeq(out, rq[r].delivered + 1, rq[r].delivered + k)
                    dataSize == Len(rq[r].responseData)
                    remainingSpace == maxLogSize - dataSize
                    chunkToStore == IF Len(chunk) <= remainingSpace THEN chunk
                                    ELSE SubSeq(chunk, 1, remainingSpace)
                IN  /\ rq' = [rq EXCEPT
                          ![r].delivered = @ + k,
                          ![r].responseData =
                              IF dataSize < maxLogSize THEN @ \o chunkToStore ELSE @,
                          ![r].accumulatedResponse = @ \o BufferToString(chunk)]
                    /\ clientResp' = [clientResp EXCEPT ![r].body =
                          IF clientResp[r].destroyed THEN @ ELSE @ \o chunk]
    /\ UNCHANGED <<listening, modelConfigs, providerConfigs, pendingLogs, uuidCounter,
                   writes, logFile, rotated, crashed>>
    /\ UNCHANGED auxVars

\* createMergedResponseStream.flush: the 2xx body has ended; the log record
\* and the token count are left to a setImmediate callback, the client's
\* stream ends
StreamEnd(r) ==
    /\ ~crashed
    /\ rq[r].pc = "streaming"
    /\ rq[r].delivered = Len(OutputStream(rq[r].proxyResp))
    /\ rq' = [rq EXCEPT ![r].pc = "ended", ![r].immFlush = TRUE]
    /\ clientResp' = [clientResp EXCEPT ![r].finished =
                         IF clientResp[r].destroyed THEN @ ELSE TRUE]
    /\ UNCHANGED <<listening, modelConfigs, providerConfigs, pendingLogs, uuidCounter,
                   writes, logFile, rotated, crashed>>
    /\ UNCHANGED auxVars

\* the setImmediate callback of flush: logPromise calls logResponse at once,
\* tokenPromise calls countTokensAsync, which schedules its own callback
FlushImmediate(r) ==
    /\ ~crashed
    /\ rq[r].immFlush
    /\ LET contentType == rq[r].proxyResp.contentType
           responseToLog == ResponseToLog(contentType, rq[r].responseData)
           line == LogResponseEntry([form |-> "string", text |-> responseToLog],
                                    contentType, rq[r].requestId,
                                    rq[r].proxyResp.statusCode,
                                    UndefinedNum, UndefinedNum,
                                    MapGetOrEmpty(pendingLogs, rq[r].requestId))
       IN  /\ pendingLogs' = MapDelete(pendingLogs, rq[r].requestId)
           /\ writes' = StartWrite(writes, <<r, "response">>, line)
    /\ LET call == CountTokensAsync(rq[r].accumulatedResponse, rq[r].actualModelName)
       IN  rq' = [rq EXCEPT ![r].immFlush = FALSE, ![r].immTokens = call.immediate,
                            ![r].completionAt = IF call.computed THEN "immediate" ELSE @,
                            ![r].logResponseCalls = @ + 1]
    /\ UNCHANGED <<listening, modelConfigs, providerConfigs, clientResp, uuidCounter,
                   logFile, rotated, crashed>>
    /\ UNCHANGED auxVars

\* the setImmediate callback of countTokensAsync for the completion, and
\* onCompletionTokens
CompletionTokensImmediate(r) ==
    /\ ~crashed
    /\ rq[r].immTokens
    /\ LET n == CountTokens(rq[r].accumulatedResponse, rq[r].actualModelName)
       IN  /\ rq' = [rq EXCEPT ![r].immTokens = FALSE, ![r].completionTokens = n,
                                ![r].completionAt = "later"]
           /\ pendingLogs' = UpdateLogEntry(pendingLogs, rq[r].requestId,
                                [completionTokens |-> n,
                                 totalTokens |-> rq[r].promptTokens + n])
    /\ UNCHANGED <<listening, modelConfigs, providerConfigs, clientResp, uuidCounter,
                   writes, logFile, rotated, crashed>>
    /\ UNCHANGED auxVars

\* proxyReq.setTimeout's callback (registered once): the upstream socket was
\* idle for TIMEOUT ms; the request is not aborted
UpstreamTimeout(r) ==
    /\ ~crashed
    /\ rq[r].pc \in {"forwarded", "errorBody", "streaming"}
    /\ ~rq[r].immPrompt
    /\ ~rq[r].timeoutFired
    /\ rq' = [rq EXCEPT ![r].timeoutFired = TRUE]
    /\ clientResp' = [clientResp EXCEPT ![r] =
          HandleErrorResponse(@, TimeoutMessage, rq[r].actualModelName, 504, ContentTypeNone)]
    /\ UNCHANGED <<listening, modelConfigs, providerConfigs, pendingLogs, uuidCounter,
                   writes, logFile, rotated, crashed>>
    /\ UNCHANGED auxVars

\* proxyReq's 'error' listener: the connection to the upstream failed before
\* a response arrived
UpstreamError(r) ==
    /\ ~crashed
    /\ rq[r].pc = "forwarded"
    /\ ~rq[r].immPrompt
    /\ rq' = [rq EXCEPT ![r].pc = "connError"]
    /\ clientResp' = [clientResp EXCEPT ![r] =
          HandleErrorResponse(@, ConnErrorMessage, rq[r].actualModelName, 500, ContentTypeNone)]
    /\ UNCHANGED <<listening, modelConfigs, providerConfigs, pendingLogs, uuidCounter,
                   writes, logFile, rotated, crashed>>
    /\ UNCHANGED auxVars

\* the callback of clientResp.setTimeout (server.ts): the client's socket
\* was idle for TIMEOUT ms while the response was not finished.  With the
\* listener registered the socket is not destroyed by the timeout.
ClientTimeout(r) ==
    /\ ~crashed
    /\ listening
    /\ rq[r].pc \in {"waiting", "forwarded", "errorBody", "streaming"}
    /\ ~rq[r].immPrompt
    /\ ~rq[r].clientTimeoutFired
    /\ ~clientResp[r].finished
    /\ ~clientResp[r].destroyed
    /\ rq' = [rq EXCEPT ![r].clientTimeoutFired = TRUE]
    /\ clientResp' = [clientResp EXCEPT ![r] =
          IF ~@.headersSent
          THEN HandleErrorResponse(@, ClientTimeoutMessage, EmptyText, 504, ContentTypeNone)
          ELSE @]
    /\ UNCHANGED <<listening, modelConfigs, providerConfigs, pendingLogs, uuidCounter,
                   writes, logFile, rotated, crashed>>
    /\ UNCHANGED auxVars

(***************************************************************************)
(* logger.writeLog: ensureLogDir, rotateLogIfNeeded (stat, rename),        *)
(* appendFile, each awaited.  The size of the file is counted in lines;    *)
(* MaxLogLines stands for MAX_LOG_SIZE.                                    *)
(***************************************************************************)
\* await fs.mkdir(LOG_DIR, {recursive: true})
WriteMkdir(c) ==
    /\ ~crashed
    /\ writes[c].pc = "mkdir"
    /\ writes' = [writes EXCEPT ![c].pc = "stat"]
    /\ UNCHANGED <<listening, modelConfigs, providerConfigs, rq, clientResp, pendingLogs,
                   uuidCounter, logFile, rotated, crashed>>
    /\ UNCHANGED auxVars

\* await fs.stat(LOG_FILE): stats && stats.size >= MAX_LOG_SIZE
WriteStat(c) ==
    /\ ~crashed
    /\ writes[c].pc = "stat"
    /\ writes' = [writes EXCEPT ![c].pc =
                     IF Len(logFile) >= MaxLogLines THEN "rename" ELSE "append"]
    /\ UNCHANGED <<listening, modelConfigs, providerConfigs, rq, clientResp, pendingLogs,
                   uuidCounter, logFile, rotated, crashed>>
    /\ UNCHANGED auxVars

\* await fs.rename(LOG_FILE, rotatedFile): the name holds the time in ms, so
\* a rename in the millisecond of the previous one replaces that file; with
\* no active file the rename fails and the failure is logged
WriteRename(c) ==
    /\ ~crashed
    /\ writes[c].pc = "rename"
    /\ writes' = [writes EXCEPT ![c].pc = "append"]
    /\ IF logFile = <<>>
       THEN UNCHANGED <<logFile, rotated>>
       ELSE /\ logFile' = <<>>
            /\ \E sameMillisecond \in BOOLEAN :
                 rotated' = IF sameMillisecond /\ rotated # <<>>
                            THEN [rotated EXCEPT ![Len(rotated)] = logFile]
                            ELSE Append(rotated, logFile)
    /\ UNCHANGED <<listening, modelConfigs, providerConfigs, rq, clientResp, pendingLogs,
                   uuidCounter, crashed>>
    /\ UNCHANGED auxVars

\* await fs.appendFile(LOG_FILE, data)
WriteAppend(c) ==
    /\ ~crashed
    /\ writes[c].pc = "append"
    /\ writes' = [writes EXCEPT ![c].pc = "done"]
    /\ logFile' = Append(logFile, c)
    /\ UNCHANGED <<listening, modelConfigs, providerConfigs, rq, clientResp, pendingLogs,
                   uuidCounter, rotated, crashed>>
    /\ UNCHANGED auxVars

(***************************************************************************)
(* Configurations, request bodies and upstream responses of the model.     *)
(***************************************************************************)
ProviderP == <<"p">>

ProviderQ == <<"q">>

\* a provider name that holds a slash
ProviderPM == <<"p", "/", "m">>

KeyM == <<"m">>

KeyN == <<"n">>

\* a model key that holds a slash
KeyMN == <<"m", "/", "n">>

GptModel == <<"g","p","t">>

OssModel == <<"o","s","s">>

\* the server's configuration in Spec and SpecSingle: one provider p with
\* the models table {m: gpt at 0.1, n: oss at 0.7} (temperatures in tenths)
DefaultConfig ==
    << [name |-> ProviderP, baseUrl |-> <<"http://up">>, completionsPath |-> <<"/v1/chat">>,
        hasModels |-> TRUE,
        models |-> << [key |-> KeyM, modelName |-> GptModel, temperature |-> JSNum(1)],
                      [key |-> KeyN, modelName |-> OssModel, temperature |-> JSNum(7)] >>,
        others |-> <<>>] >>

ProviderNames == {ProviderP, ProviderQ, ProviderPM}

\* the key lists a provider of SpecRegistry may declare
KeyLists == { <<KeyM>>, <<KeyM, KeyN>>, <<KeyMN>>, <<KeyN, KeyMN>> }

\* the entry a provider declares for a key: a name and a default of its own
ModelEntry(name, key) ==
    [key |-> key, modelName |-> <<"M">> \o name \o <<":">> \o key,
     temperature |-> JSNum(Len(name) + 2 * Len(key))]

\* a provider record: its models under a models field (nested) or directly
\* under the provider
ProviderRecord(name, keys, nested) ==
    LET entries == [i \in 1..Len(keys) |-> ModelEntry(name, keys[i])]
    IN  [name |-> name, baseUrl |-> <<"http://">> \o name, completionsPath |-> <<"/v1/chat">>,
         hasModels |-> nested,
         models |-> IF nested THEN entries ELSE <<>>,
         others |-> IF nested THEN <<>> ELSE entries]

ProviderRecords ==
    {ProviderRecord(n, k, b) : n \in ProviderNames, k \in KeyLists, b \in BOOLEAN}

\* the configurations of SpecRegistry: one or two providers of distinct names
Configs ==
    {<<a>> : a \in ProviderRecords}
    \cup {<<ab[1], ab[2]>> : ab \in {x \in ProviderRecords \X ProviderRecords : x[1].name # x[2].name}}

\* the model identifiers a client sends in SpecRegistry
QueryIds ==
    { Undef, <<>>, KeyM, <<"p", "/">>,
      FullModelId(ProviderP, KeyM), FullModelId(ProviderP, KeyN),
      FullModelId(ProviderQ, KeyM), FullModelId(ProviderP, KeyMN),
      <<"x", "/", "y">> } \cup ObjectPrototypeKeys

\* the temperature fields a client sends (numbers in tenths)
Temperatures ==
    { JSUndef, JSNull, JSNum(-1), JSNum(0), JSNum(3),
      JSStr(0), JSStr(1), JSStr(2), JSBool(TRUE), JSBool(FALSE), JSEmptyArray }

PromptHi == <<"h", "i">>

\* the seed fields a client sends: none, 7, 2^53 and 2^53 + 1
Seeds == { JSUndef, JSNum(7), JSBigNum(0), JSBigNum(1) }

RegistryBodies ==
    [validJson : {TRUE}, model : QueryIds, temperature : Temperatures, promptText : {PromptHi},
     seed : Seeds]
    \cup {NoBody}

\* the bodies of Spec: a configured model, with messages
SmallBodies ==
    [validJson : {TRUE}, model : {FullModelId(ProviderP, KeyM)},
     temperature : {JSUndef}, promptText : {PromptHi}, seed : {JSUndef}]

\* the bodies of SpecSingle: both configured models, with and without
\* messages; a model outside the registry, an inherited key, a body that is
\* no JSON
SingleBodies ==
    [validJson : {TRUE},
     model : {FullModelId(ProviderP, KeyM), FullModelId(ProviderP, KeyN)},
     temperature : {JSUndef}, promptText : {<<>>, PromptHi}, seed : {JSUndef}]
    \cup [validJson : {TRUE},
          model : {<<"x", "/", "y">>, <<"t","o","S","t","r","i","n","g">>},
          temperature : {JSUndef}, promptText : {PromptHi}, seed : {JSUndef}]
    \cup {NoBody}

\* bodies of at most MaxBody bytes
RECURSIVE BytesUpTo(_)
BytesUpTo(n) ==
    IF n = 0 THEN {<<>>}
    ELSE BytesUpTo(n - 1)
         \cup {Append(b, x) : b \in {y \in BytesUpTo(n - 1) : Len(y) = n - 1}, x \in BodyBytes}

UpstreamResponseOf(statusCode, contentType, contentEncoding, body) ==
    [statusCode |-> statusCode, contentType |-> contentType,
     contentEncoding |-> contentEncoding, wire |-> Compress(contentEncoding, body)]

SmallResponses ==
    {UpstreamResponseOf(s, ContentTypeJson, "identity", <<"1">>) : s \in {200, 503}}

RichResponses ==
    {UpstreamResponseOf(s, ct, e, b) :
        s \in {199, 200, 299, 300, 503},
        ct \in {ContentTypeJson, ContentTypeText, ContentTypeBinary, ContentTypeNone},
        e \in {"identity", "gzip"},
        b \in BytesUpTo(MaxBody)}

(***************************************************************************)
(* The certificate table (configLoader).                                   *)
(***************************************************************************)
\* certPath of an entry: none given, a file that cannot be read, files that
\* can
NoCertPath == "undefined"

UnreadablePath == "certs/gone.pem"

ReadablePaths == {"certs/a.pem"}

\* fs.readFile of a readable certificate file: its bytes
FileBytes(certPath) == <<"pem", certPath>>

NullCert == "null"

UndefinedCert == "undefined"

\* loadCertFromFile: the bytes of the file, null without a path or when the
\* read fails
LoadCertFromFile(certConfig) ==
    IF certConfig.certPath = NoCertPath THEN NullCert
    ELSE IF certConfig.certPath \in ReadablePaths THEN FileBytes(certConfig.certPath)
    ELSE NullCert

\* the entry with the bug of keeping the configured must flag
CaCertsEntryMustKept(certConfig) == [hostname |-> certConfig.hostname, must |-> certConfig.must, cert |-> IF LoadCertFromFile(certConfig) = NullCert THEN UndefinedCert ELSE LoadCertFromFile(certConfig)]

\* the entry loadCACerts pushes for one configured entry
CaCertsEntry(certConfig) ==
    LET cert == LoadCertFromFile(certConfig)
    IN  [hostname |-> certConfig.hostname,
         must |-> certConfig.must /\ cert # NullCert,
         cert |-> IF cert = NullCert THEN UndefinedCert ELSE cert]

\* loadCACerts: the table after the call.  Without a configuration file the
\* table is left as it was; otherwise it is emptied and refilled, one entry
\* per configured entry, in order
LoadCACerts(file, table) ==
    IF file.kind = "array"
    THEN [i \in 1..Len(file.entries) |-> CaCertsEntry(file.entries[i])]
    ELSE table

\* caCerts.find(cert => cert.hostname === hostname): the index of the first
\* entry of that hostname, 0 when there is none
FindCert(table, hostname) ==
    IF \E i \in 1..Len(table) : table[i].hostname = hostname
    THEN CHOOSE i \in 1..Len(table) :
            /\ table[i].hostname = hostname
            /\ \A j \in 1..(i - 1) : table[j].hostname # hostname
    ELSE 0

\* setupCA with the bug of taking any entry of the hostname that has must
\* and a certificate
SetupCAAnyEntry(options, table, hostname) == IF \E i \in 1..Len(table) : table[i].hostname = hostname /\ table[i].must /\ table[i].cert # UndefinedCert THEN [options EXCEPT !.ca = table[CHOOSE i \in 1..Len(table) : table[i].hostname = hostname /\ table[i].must /\ table[i].cert # UndefinedCert].cert, !.rejectUnauthorized = TRUE] ELSE [options EXCEPT !.rejectUnauthorized = FALSE]

\* setupCA
SetupCA(options, table, hostname) ==
    LET found == FindCert(table, hostname)
    IN  IF found # 0 /\ table[found].must /\ table[found].cert # UndefinedCert
        THEN [options EXCEPT !.ca = table[found].cert, !.rejectUnauthorized = TRUE]
        ELSE [options EXCEPT !.rejectUnauthorized = FALSE]

(***************************************************************************)
(* The specifications.                                                     *)
(***************************************************************************)
\* startServer: loadModelConfigs, loadCACerts, then server.listen.  A
\* certs.config.json that is no JSON ends the process (process.exit(1))
StartServerWith(configs) ==
    /\ ~listening
    /\ ~crashed
    /\ \E config \in configs :
         /\ modelConfigs' = LoadModelConfigs(config)
         /\ providerConfigs' = LoadProviderConfigs(config)
    /\ caCerts' = LoadCACerts(certsFile, caCerts)
    /\ listening' = (certsFile.kind # "SyntaxError")
    /\ crashed' = (certsFile.kind = "SyntaxError")
    /\ UNCHANGED <<rq, clientResp, pendingLogs, uuidCounter, writes, logFile, rotated>>
    /\ UNCHANGED <<route, hdr, conn, certsFile, modelFile, certLoad, tokenCall, requestDataCache,
                   responseDataCache, clock, cacheCall, encoderCache, encoderCall>>

StartServer == StartServerWith(Configs)

InitRequests ==
    /\ rq = [r \in Reqs |-> InitRq]
    /\ clientResp = [r \in Reqs |-> InitClientResp]
    /\ pendingLogs = [x \in {} |-> EmptyObject]
    /\ uuidCounter = 0
    /\ writes = [c \in ChainKeys |-> [pc |-> "none", line |-> NoLine]]
    /\ rotated = <<>>
    /\ crashed = FALSE

\* the server is listening with DefaultConfig loaded; the log file is absent
\* or one line short of the rotation threshold
Init ==
    /\ listening = TRUE
    /\ modelConfigs = LoadModelConfigs(DefaultConfig)
    /\ providerConfigs = LoadProviderConfigs(DefaultConfig)
    /\ logFile \in {<<>>, [i \in 1..(MaxLogLines - 1) |-> OldLine]}
    /\ InitRequests
    /\ InitAux

Next ==
    \/ \E r \in Reqs : HandleChatCompletions(r, SmallBodies)
    \/ \E r \in Reqs : PromptTokensImmediate(r)
    \/ \E r \in Reqs : UpstreamResponse(r, SmallResponses)
    \/ \E r \in Reqs : ErrorBodyEnd(r)
    \/ \E r \in Reqs : StreamChunk(r)
    \/ \E r \in Reqs : StreamEnd(r)
    \/ \E r \in Reqs : FlushImmediate(r)
    \/ \E r \in Reqs : CompletionTokensImmediate(r)
    \/ \E r \in Reqs : UpstreamTimeout(r)
    \/ \E r \in Reqs : UpstreamError(r)
    \/ \E r \in Reqs : ClientTimeout(r)
    \/ \E c \in ChainKeys : WriteMkdir(c)
    \/ \E c \in ChainKeys : WriteStat(c)
    \/ \E c \in ChainKeys : WriteRename(c)
    \/ \E c \in ChainKeys : WriteAppend(c)

Spec == Init /\ [][Next]_vars

\* one request, every upstream response
NextSingle ==
    \/ HandleChatCompletions(1, SingleBodies)
    \/ PromptTokensImmediate(1)
    \/ UpstreamResponse(1, RichResponses)
    \/ ErrorBodyEnd(1)
    \/ StreamChunk(1)
    \/ StreamEnd(1)
    \/ FlushImmediate(1)
    \/ CompletionTokensImmediate(1)
    \/ UpstreamTimeout(1)
    \/ UpstreamError(1)
    \/ ClientTimeout(1)
    \/ \E c \in ChainKeys : WriteMkdir(c)
    \/ \E c \in ChainKeys : WriteStat(c)
    \/ \E c \in ChainKeys : WriteRename(c)
    \/ \E c \in ChainKeys : WriteAppend(c)

SpecSingle == Init /\ [][NextSingle]_vars

\* one request, and the timer of the transient cache
NextCache ==
    \/ NextSingle
    \/ SweepExpired

SpecCache == Init /\ [][NextCache]_vars

\* the request log: one request with any temperature, and its log write
LogBodies == [validJson : {TRUE}, model : {FullModelId(ProviderP, KeyM), FullModelId(ProviderP, KeyN)}, temperature : Temperatures, promptText : {<<>>, PromptHi}, seed : {JSUndef}]

\* the log file is absent, below the rotation threshold or at it
InitRequestLog ==
    /\ listening = TRUE
    /\ modelConfigs = LoadModelConfigs(DefaultConfig)
    /\ providerConfigs = LoadProviderConfigs(DefaultConfig)
    /\ logFile \in {[i \in 1..n |-> OldLine] : n \in 0..MaxLogLines}
    /\ InitRequests
    /\ InitAux

NextRequestLog ==
    \/ HandleChatCompletions(1, LogBodies)
    \/ PromptTokensImmediate(1)
    \/ \E c \in ChainKeys : WriteMkdir(c)
    \/ \E c \in ChainKeys : WriteStat(c)
    \/ \E c \in ChainKeys : WriteRename(c)
    \/ \E c \in ChainKeys : WriteAppend(c)

SpecRequestLog == InitRequestLog /\ [][NextRequestLog]_vars

\* the registry: the server starts with any configuration, one request is
\* resolved
InitRegistry ==
    /\ listening = FALSE
    /\ modelConfigs = [x \in {} |-> PrototypeMember]
    /\ providerConfigs = [x \in {} |-> PrototypeMember]
    /\ logFile = <<>>
    /\ InitRequests
    /\ InitAux

NextRegistry ==
    \/ StartServer
    \/ HandleChatCompletions(1, RegistryBodies)

SpecRegistry == InitRegistry /\ [][NextRegistry]_vars

(***************************************************************************)
(* server.ts: the request listener of http.createServer.  A request URL is *)
(* a sequence of tokens: the path, then "?" and the query when it has one. *)
(***************************************************************************)
\* url.parse(clientReq.url, true).pathname
RECURSIVE Pathname(_)
Pathname(reqUrl) ==
    IF reqUrl = <<>> \/ Head(reqUrl) = "?" THEN <<>>
    ELSE <<Head(reqUrl)>> \o Pathname(Tail(reqUrl))

\* JSON.stringify({ error: 'Not found' })
NotFoundBody == <<"{", "QUOTE", "error", "QUOTE", ":", "QUOTE", "Not found", "QUOTE", "}">>

\* the listener with the bug of routing every method
RequestListenerAnyMethod(method, reqUrl) ==
    IF method = "OPTIONS"
    THEN [statusCode |-> 200, contentType |-> ContentTypeNone, body |-> <<>>, pipeline |-> FALSE]
    ELSE IF Pathname(reqUrl) \in {<<"/chat/completions">>, <<"/v1/chat/completions">>}
    THEN [statusCode |-> 0, contentType |-> ContentTypeNone, body |-> <<>>, pipeline |-> TRUE]
    ELSE [statusCode |-> 404, contentType |-> ContentTypeJson, body |-> NotFoundBody,
          pipeline |-> FALSE]

\* what the listener does with a request: the response it writes itself, or
\* the call of handleChatCompletions
RequestListener(method, reqUrl) ==
    IF method = "OPTIONS"
    THEN [statusCode |-> 200, contentType |-> ContentTypeNone, body |-> <<>>, pipeline |-> FALSE]
    ELSE IF /\ method = "POST"
            /\ Pathname(reqUrl) \in {<<"/chat/completions">>, <<"/v1/chat/completions">>}
    THEN [statusCode |-> 0, contentType |-> ContentTypeNone, body |-> <<>>, pipeline |-> TRUE]
    ELSE [statusCode |-> 404, contentType |-> ContentTypeJson, body |-> NotFoundBody,
          pipeline |-> FALSE]

Methods == {"GET", "POST", "PUT", "DELETE", "PATCH", "HEAD", "OPTIONS"}

Paths ==
    { "/", "/chat/completions", "/v1/chat/completions", "/v1/chat/completions/",
      "/V1/CHAT/COMPLETIONS", "/v1/models", "/v2/chat/completions", "*" }

RequestUrls == {<<p>> : p \in Paths} \cup {<<p, "?", "a=1">> : p \in Paths}

\* a request has reached the listener
Arrived(method, reqUrl) == [pc |-> "arrived", method |-> method, url |-> reqUrl]

\* the listener runs on the request
Serve ==
    /\ listening
    /\ route.pc = "arrived"
    /\ route' = [pc |-> "served", method |-> route.method, url |-> route.url,
                 out |-> RequestListener(route.method, route.url)]
    /\ UNCHANGED <<listening, modelConfigs, providerConfigs, rq, clientResp, pendingLogs,
                   uuidCounter, writes, logFile, rotated, crashed, hdr, caCerts, conn,
                   certsFile, modelFile, certLoad, tokenCall, requestDataCache,
                   responseDataCache, clock, cacheCall, encoderCache, encoderCall>>

\* the server is listening and one request, of any method and URL, arrives
InitRouting ==
    /\ listening = TRUE
    /\ modelConfigs = LoadModelConfigs(DefaultConfig)
    /\ providerConfigs = LoadProviderConfigs(DefaultConfig)
    /\ logFile = <<>>
    /\ InitRequests
    /\ route \in {Arrived(m, u) : m \in Methods, u \in RequestUrls}
    /\ hdr = NoHdr
    /\ caCerts = <<>>
    /\ conn = NoConn
    /\ certsFile = NoCertsFile
    /\ modelFile = NoModelFile
    /\ certLoad = NoCertLoad
    /\ tokenCall = NoTok
    /\ requestDataCache = <<>>
    /\ InitCaches

NextRouting == Serve

SpecRouting == InitRouting /\ [][NextRouting]_vars

(***************************************************************************)
(* requestHandler.customHeaders and the headers of the outbound options.   *)
(* A header name is a sequence of characters, a header value a text; a     *)
(* header object is a function from names to values.  A provider record is *)
(* seen here as props (the string form of each own property, by name) and  *)
(* customHeader (has: the field is present; add, replace, remove: the      *)
(* rules in the order Object.entries gives them).                          *)
(***************************************************************************)
LowerChar(c) ==
    CASE c = "A" -> "a"
      [] c = "X" -> "x"
      [] c = "K" -> "k"
      [] OTHER -> c

\* the names of IncomingMessage.headers are lower-cased by Node
ToLowerCase(name) == [i \in 1..Len(name) |-> LowerChar(name[i])]

\* clientReq.headers for the header lines the client sent
IncomingHeaders(raw) ==
    [n \in {ToLowerCase(k) : k \in DOMAIN raw} |->
        raw[CHOOSE k \in DOMAIN raw : ToLowerCase(k) = n]]

ContentTypeName == <<"C","o","n","t","e","n","t","-","T","y","p","e">>

HostName == <<"h","o","s","t">>

\* options.headers: the client's headers, then Content-Type and host
\* (Content-Length is left out)
OptionsHeaders(clientHeaders, hostname) ==
    LET fixed == [n \in {ContentTypeName, HostName} |->
                    IF n = HostName THEN hostname ELSE <<"application/json">>]
    IN  [n \in (DOMAIN clientHeaders) \cup (DOMAIN fixed) |->
            IF n \in DOMAIN fixed THEN fixed[n] ELSE clientHeaders[n]]

\* the index of the first "}" of text, 0 when it has none
FirstClose(text) ==
    IF \E j \in 1..Len(text) : text[j] = "}"
    THEN CHOOSE j \in 1..Len(text) :
            text[j] = "}" /\ \A k \in 1..(j - 1) : text[k] # "}"
    ELSE 0

\* the regular expression /\{([^}]+)\}/g matches somewhere in text
RECURSIVE HasPlaceholder(_)
HasPlaceholder(text) ==
    IF text = <<>> THEN FALSE
    ELSE IF Head(text) = "{" /\ FirstClose(text) > 2 THEN TRUE
    ELSE HasPlaceholder(Tail(text))

\* providerConfig.hasOwnProperty(propertyName) ? providerConfig[propertyName] : ''
PropertyValue(props, propertyName) ==
    IF propertyName \in DOMAIN props THEN props[propertyName] ELSE <<>>

\* headerValue.replace(/\{([^}]+)\}/g, ...): the matches are taken from left
\* to right, the text written for a match is not searched again
RECURSIVE ReplacePlaceholders(_, _)
ReplacePlaceholders(text, props) ==
    IF text = <<>> THEN <<>>
    ELSE IF Head(text) = "{" /\ FirstClose(text) > 2
    THEN PropertyValue(props, SubSeq(text, 2, FirstClose(text) - 1))
         \o ReplacePlaceholders(SubSeq(text, FirstClose(text) + 1, Len(text)), props)
    ELSE <<Head(text)>> \o ReplacePlaceholders(Tail(text), props)

\* providerConfig.hasOwnProperty is the provider's own property of that
\* name when it has one, and that is no function: the call throws
HasOwnPropertyThrows(props) == <<"hasOwnProperty">> \in DOMAIN props

\* the loop over customRules.add
RECURSIVE AddPhase(_, _, _)
AddPhase(headers, add, props) ==
    IF add = <<>> THEN headers
    ELSE AddPhase(MapSet(headers, Head(add).name, ReplacePlaceholders(Head(add).value, props)),
                  Tail(add), props)

\* a header value used as a condition: the empty string is false
TruthyHeader(headers, name) == name \in DOMAIN headers /\ headers[name] # <<>>

\* the loop over customRules.replace
RECURSIVE ReplacePhase(_, _)
ReplacePhase(headers, replace) ==
    IF replace = <<>> THEN headers
    ELSE ReplacePhase(
            IF TruthyHeader(headers, Head(replace).source)
            THEN MapDelete(MapSet(headers, Head(replace).target, headers[Head(replace).source]),
                           Head(replace).source)
            ELSE headers,
            Tail(replace))

\* the loop over customRules.remove
RECURSIVE RemovePhase(_, _)
RemovePhase(headers, remove) ==
    IF remove = <<>> THEN headers
    ELSE RemovePhase(IF TruthyHeader(headers, Head(remove))
                     THEN MapDelete(headers, Head(remove)) ELSE headers,
                     Tail(remove))

\* customHeaders(options, providerConfig): whether it threw, and
\* options.headers after it
CustomHeaders(headers, providerConfig) ==
    LET rules == providerConfig.customHeader
    IN  IF ~rules.has THEN [threw |-> FALSE, headers |-> headers]
        ELSE IF /\ HasOwnPropertyThrows(providerConfig.props)
                /\ \E i \in 1..Len(rules.add) : HasPlaceholder(rules.add[i].value)
        THEN [threw |-> TRUE, headers |-> headers]
        ELSE [threw |-> FALSE,
              headers |-> RemovePhase(
                             ReplacePhase(AddPhase(headers, rules.add, providerConfig.props),
                                          rules.replace),
                             rules.remove)]

\* header names: Authorization as a client or a rule may spell it, and two
\* lower-case names
AuthName == <<"A","u","t","h">>

AuthLower == <<"a","u","t","h">>

GatewayKeyName == <<"x","-","k">>

TraceName == <<"x","-","t">>

BearerXyz == <<"Bearer ", "xyz">>

ApiKeyProp == <<"apiKey">>

\* the header lines a client sends
RawHeaderSets ==
    { [n \in {} |-> <<>>],
      [n \in {AuthName} |-> BearerXyz],
      [n \in {AuthLower} |-> BearerXyz],
      [n \in {TraceName} |-> <<>>],
      [n \in {AuthName, TraceName} |-> IF n = AuthName THEN BearerXyz ELSE <<>>] }

AddRule(name, value) == [name |-> name, value |-> value]

ReplaceRule(source, target) == [source |-> source, target |-> target]

AddRuleLists ==
    { <<>>,
      <<AddRule(AuthName, <<"Bearer ", "{", "apiKey", "}">>)>>,
      <<AddRule(GatewayKeyName, <<"{", "apiKey", "}">>)>>,
      <<AddRule(GatewayKeyName, <<"{", "{", "apiKey", "}", "}">>)>>,
      <<AddRule(TraceName, <<"t", "{", "}">>)>> }

ReplaceRuleLists ==
    { <<>>,
      <<ReplaceRule(AuthName, GatewayKeyName)>>,
      <<ReplaceRule(AuthLower, GatewayKeyName)>>,
      <<ReplaceRule(GatewayKeyName, TraceName)>>,
      <<ReplaceRule(AuthLower, GatewayKeyName), ReplaceRule(GatewayKeyName, TraceName)>> }

RemoveLists == { <<>>, <<AuthName>>, <<AuthLower>>, <<TraceName>>, <<GatewayKeyName>> }

\* the own properties of a provider record that a placeholder can name
PropSets ==
    { [n \in {} |-> <<>>],
      [n \in {ApiKeyProp} |-> <<"sk-123">>],
      [n \in {ApiKeyProp} |-> <<"{", "k", "}">>],
      [n \in {ApiKeyProp, <<"hasOwnProperty">>} |->
          IF n = ApiKeyProp THEN <<"sk-123">> ELSE <<"[object Object]">>] }

HeaderProviders ==
    [props : PropSets,
     customHeader : [has : {TRUE}, add : AddRuleLists, replace : ReplaceRuleLists,
                     remove : RemoveLists]]
    \cup [props : {[n \in {ApiKeyProp} |-> <<"sk-123">>]},
          customHeader : [has : {FALSE}, add : {<<>>}, replace : {<<>>}, remove : {<<>>}]]

\* handleChatCompletions from the options object to the call of
\* customHeaders: the outbound headers of one request
BuildOptions ==
    /\ listening
    /\ hdr.pc = "ready"
    /\ LET base == OptionsHeaders(IncomingHeaders(hdr.raw), <<"up">>)
           res == CustomHeaders(base, hdr.provider)
       IN  hdr' = [pc |-> IF res.threw THEN "threw" ELSE "done",
                   raw |-> hdr.raw, provider |-> hdr.provider,
                   base |-> base, headers |-> res.headers]
    /\ UNCHANGED <<listening, modelConfigs, providerConfigs, rq, clientResp, pendingLogs,
                   uuidCounter, writes, logFile, rotated, crashed, route, caCerts, conn,
                   certsFile, modelFile, certLoad, tokenCall, requestDataCache,
                   responseDataCache, clock, cacheCall, encoderCache, encoderCall>>

\* the server is listening; a request with any of the header sets is about
\* to be forwarded to a provider with any of the rule sets
InitHeaders ==
    /\ listening = TRUE
    /\ modelConfigs = LoadModelConfigs(DefaultConfig)
    /\ providerConfigs = LoadProviderConfigs(DefaultConfig)
    /\ logFile = <<>>
    /\ InitRequests
    /\ route = NoRoute
    /\ hdr \in [pc : {"ready"}, raw : RawHeaderSets, provider : HeaderProviders]
    /\ caCerts = <<>>
    /\ conn = NoConn
    /\ certsFile = NoCertsFile
    /\ modelFile = NoModelFile
    /\ certLoad = NoCertLoad
    /\ tokenCall = NoTok
    /\ requestDataCache = <<>>
    /\ InitCaches

NextHeaders == BuildOptions

SpecHeaders == InitHeaders /\ [][NextHeaders]_vars

\* the hostnames of upstreams and of certificate entries
Hostnames == {"h1", "h2"}

\* the entries of certs.config.json
CertConfigs ==
    [hostname : Hostnames, must : BOOLEAN,
     certPath : {NoCertPath, UnreadablePath} \cup ReadablePaths]

\* certs.config.json: absent, not JSON, or an array of up to MaxCerts entries
CertsFiles ==
    {NoCertsFile, [kind |-> "SyntaxError", entries |-> <<>>]}
    \cup {[kind |-> "array", entries |-> e] :
            e \in UNION {[1..n -> CertConfigs] : n \in 0..MaxCerts}}

\* handleChatCompletions from the options object to http(s).request: the
\* one connection of a request to an upstream of this protocol and hostname
Connect(protocol, hostname) ==
    /\ listening
    /\ ~crashed
    /\ conn.pc = "none"
    /\ LET options == [ca |-> UndefinedCert, rejectUnauthorized |-> FALSE]
       IN  conn' = [pc |-> "connecting", protocol |-> protocol, hostname |-> hostname,
                    options |-> IF protocol = "https:"
                                THEN SetupCA(options, caCerts, hostname)
                                ELSE options,
                    attempts |-> 1, statusCode |-> 0]
    /\ UNCHANGED <<listening, modelConfigs, providerConfigs, rq, clientResp, pendingLogs,
                   uuidCounter, writes, logFile, rotated, crashed, route, hdr, caCerts,
                   certsFile, modelFile, certLoad, tokenCall, requestDataCache,
                   responseDataCache, clock, cacheCall, encoderCache, encoderCall>>

\* the upstream's certificate is accepted (or not looked at) and it answers
UpstreamConnected ==
    /\ conn.pc = "connecting"
    /\ conn' = [conn EXCEPT !.pc = "connected"]
    /\ UNCHANGED <<listening, modelConfigs, providerConfigs, rq, clientResp, pendingLogs,
                   uuidCounter, writes, logFile, rotated, crashed, route, hdr, caCerts,
                   certsFile, modelFile, certLoad, tokenCall, requestDataCache,
                   responseDataCache, clock, cacheCall, encoderCache, encoderCall>>

\* the upstream's certificate fails the verification: proxyReq 'error', the
\* request is answered with status 500
VerificationFailure ==
    /\ conn.pc = "connecting"
    /\ conn.protocol = "https:"
    /\ conn.options.rejectUnauthorized
    /\ conn' = [conn EXCEPT !.pc = "failed", !.statusCode = 500]
    /\ UNCHANGED <<listening, modelConfigs, providerConfigs, rq, clientResp, pendingLogs,
                   uuidCounter, writes, logFile, rotated, crashed, route, hdr, caCerts,
                   certsFile, modelFile, certLoad, tokenCall, requestDataCache,
                   responseDataCache, clock, cacheCall, encoderCache, encoderCall>>

\* the server has not started; certs.config.json is any of the files
InitCerts ==
    /\ listening = FALSE
    /\ modelConfigs = [x \in {} |-> PrototypeMember]
    /\ providerConfigs = [x \in {} |-> PrototypeMember]
    /\ logFile = <<>>
    /\ InitRequests
    /\ route = NoRoute
    /\ hdr = NoHdr
    /\ caCerts = <<>>
    /\ conn = NoConn
    /\ certsFile \in CertsFiles
    /\ modelFile = NoModelFile
    /\ certLoad = NoCertLoad
    /\ tokenCall = NoTok
    /\ requestDataCache = <<>>
    /\ InitCaches

NextCerts ==
    \/ StartServerWith({DefaultConfig})
    \/ \E protocol \in {"http:", "https:"}, hostname \in Hostnames : Connect(protocol, hostname)
    \/ UpstreamConnected
    \/ VerificationFailure

SpecCerts == InitCerts /\ [][NextCerts]_vars

(***************************************************************************)
(* loadModelConfigs on the file it reads, first and again.                 *)
(***************************************************************************)
\* the filter with the bug of taking customHeader for a model
IsReservedKeyWithoutCustomHeader(key) == key \in {<<"baseUrl">>, <<"completionsPath">>, <<"apiKey">>}

\* reservedKeys.includes(key)
IsReservedKey(key) ==
    key \in {<<"baseUrl">>, <<"completionsPath">>, <<"apiKey">>, <<"customHeader">>}

\* Object.entries(providerConfig).filter(([key]) => !reservedKeys.includes(key))
RECURSIVE FilterReserved(_)
FilterReserved(keys) ==
    IF keys = <<>> THEN <<>>
    ELSE IF IsReservedKey(Head(keys)) THEN FilterReserved(Tail(keys))
    ELSE <<Head(keys)>> \o FilterReserved(Tail(keys))

\* one provider of the parsed file as the loader reads it: its models are
\* the models field when that is set, else its keys that are not reserved
ReadProvider(raw) ==
    [name |-> raw.name, baseUrl |-> <<"http://">> \o raw.name,
     completionsPath |-> <<"/v1/chat">>,
     hasModels |-> raw.hasModels,
     models |-> [i \in 1..Len(raw.modelKeys) |-> ModelEntry(raw.name, raw.modelKeys[i])],
     others |-> LET keys == FilterReserved(raw.ownKeys)
                IN  [i \in 1..Len(keys) |-> ModelEntry(raw.name, keys[i])]]

ReadConfig(file) == [i \in 1..Len(file.providers) |-> ReadProvider(file.providers[i])]

\* the provider records of a model.config.json: with a models field (and a
\* key beside it), or with the models among the provider's own keys
RawProviders ==
    [name : {ProviderP, ProviderQ}, hasModels : {TRUE},
     modelKeys : {<<>>, <<KeyM>>, <<KeyM, KeyN>>},
     ownKeys : {<< <<"baseUrl">>, <<"completionsPath">>, <<"models">>, KeyN >>}]
    \cup
    [name : {ProviderP, ProviderQ}, hasModels : {FALSE}, modelKeys : {<<>>},
     ownKeys : { << <<"baseUrl">>, <<"completionsPath">>, <<"apiKey">>, <<"customHeader">>, KeyM >>,
                 << <<"baseUrl">>, KeyM, <<"completionsPath">>, KeyN >>,
                 << <<"baseUrl">>, <<"completionsPath">>, <<"timeout">> >> }]

\* model.config.json: an object of one or two providers
ObjectFiles ==
    {[kind |-> "object", providers |-> <<a>>] : a \in RawProviders}
    \cup {[kind |-> "object", providers |-> <<ab[1], ab[2]>>] :
            ab \in {x \in RawProviders \X RawProviders : x[1].name # x[2].name}}

\* model.config.json: absent, not JSON, an object with null for its first
\* provider, or an object of providers
ModelFiles ==
    {[kind |-> k, providers |-> <<>>] : k \in {"ENOENT", "SyntaxError", "TypeError"}}
    \cup ObjectFiles

\* a call of loadModelConfigs in the running process.  A file read and
\* parsed replaces both tables; every failure ends in process.exit(1), a
\* null provider after the tables have been emptied
ReloadModelConfigs ==
    /\ listening
    /\ ~crashed
    /\ modelFile.loads < MaxLoads
    /\ \E file \in ModelFiles :
         /\ modelFile' = [kind |-> file.kind, providers |-> file.providers,
                          loads |-> modelFile.loads + 1]
         /\ IF file.kind = "object"
            THEN /\ modelConfigs' = LoadModelConfigs(ReadConfig(file))
                 /\ providerConfigs' = LoadProviderConfigs(ReadConfig(file))
                 /\ crashed' = FALSE
            ELSE IF file.kind = "TypeError"
            THEN /\ modelConfigs' = [x \in {} |-> PrototypeMember]
                 /\ providerConfigs' = [x \in {} |-> PrototypeMember]
                 /\ crashed' = TRUE
            ELSE /\ UNCHANGED <<modelConfigs, providerConfigs>>
                 /\ crashed' = TRUE
    /\ UNCHANGED <<listening, rq, clientResp, pendingLogs, uuidCounter, writes, logFile,
                   rotated, route, hdr, caCerts, conn, certsFile, certLoad, tokenCall,
                   requestDataCache,
                   responseDataCache, clock, cacheCall, encoderCache, encoderCall>>

\* the server has started on an object file
InitReload ==
    /\ listening = TRUE
    /\ \E file \in ObjectFiles :
         /\ modelFile = [kind |-> file.kind, providers |-> file.providers, loads |-> 1]
         /\ modelConfigs = LoadModelConfigs(ReadConfig(file))
         /\ providerConfigs = LoadProviderConfigs(ReadConfig(file))
    /\ logFile = <<>>
    /\ InitRequests
    /\ route = NoRoute
    /\ hdr = NoHdr
    /\ caCerts = <<>>
    /\ conn = NoConn
    /\ certsFile = NoCertsFile
    /\ certLoad = NoCertLoad
    /\ tokenCall = NoTok
    /\ requestDataCache = <<>>
    /\ InitCaches

NextReload == ReloadModelConfigs

SpecReload == InitReload /\ [][NextReload]_vars

(***************************************************************************)
(* loadCACerts in the running process, between the callbacks of requests.  *)
(***************************************************************************)
\* the loop of loadCACerts from entry i on, as far as it runs without
\* leaving the turn: up to the next entry whose file it has to read
RECURSIVE RunLoader(_, _, _)
RunLoader(table, entries, i) ==
    IF i > Len(entries) \/ entries[i].certPath # NoCertPath
    THEN [table |-> table, i |-> i]
    ELSE RunLoader(Append(table, CaCertsEntry(entries[i])), entries, i + 1)

\* where the loader stands after a run of the loop
LoaderAt(old, entries, run) ==
    IF run.i > Len(entries) THEN NoCertLoad
    ELSE [pc |-> "loading", i |-> run.i, old |-> old]

\* loadCACerts is called again: certs.config.json has been read.  Without
\* the file nothing changes, a file that is no JSON ends the process, and
\* an array empties caCerts and starts the loop
ReloadCACerts ==
    /\ listening
    /\ ~crashed
    /\ certLoad.pc = "idle"
    /\ \E file \in CertsFiles :
         /\ certsFile' = file
         /\ crashed' = (file.kind = "SyntaxError")
         /\ IF file.kind = "array"
            THEN LET run == RunLoader(<<>>, file.entries, 1)
                 IN  /\ caCerts' = run.table
                     /\ certLoad' = LoaderAt(caCerts, file.entries, run)
            ELSE UNCHANGED <<caCerts, certLoad>>
    /\ UNCHANGED <<listening, modelConfigs, providerConfigs, rq, clientResp, pendingLogs,
                   uuidCounter, writes, logFile, rotated, route, hdr, conn, modelFile, tokenCall,
                   requestDataCache,
                   responseDataCache, clock, cacheCall, encoderCache, encoderCall>>

\* the read of the certificate file of entry i has ended, well or not: the
\* entry is pushed and the loop goes on
CertFileRead ==
    /\ ~crashed
    /\ certLoad.pc = "loading"
    /\ LET entries == certsFile.entries
           run == RunLoader(Append(caCerts, CaCertsEntry(entries[certLoad.i])), entries,
                            certLoad.i + 1)
       IN  /\ caCerts' = run.table
           /\ certLoad' = LoaderAt(certLoad.old, entries, run)
    /\ UNCHANGED <<listening, modelConfigs, providerConfigs, rq, clientResp, pendingLogs,
                   uuidCounter, writes, logFile, rotated, crashed, route, hdr, conn,
                   certsFile, modelFile, tokenCall, requestDataCache,
                   responseDataCache, clock, cacheCall, encoderCache, encoderCall>>

\* the server has started on a certs.config.json that holds an array
InitCertReload ==
    /\ listening = TRUE
    /\ modelConfigs = LoadModelConfigs(DefaultConfig)
    /\ providerConfigs = LoadProviderConfigs(DefaultConfig)
    /\ logFile = <<>>
    /\ InitRequests
    /\ route = NoRoute
    /\ hdr = NoHdr
    /\ certsFile \in {f \in CertsFiles : f.kind = "array"}
    /\ caCerts = LoadCACerts(certsFile, <<>>)
    /\ conn = NoConn
    /\ modelFile = NoModelFile
    /\ certLoad = NoCertLoad
    /\ tokenCall = NoTok
    /\ requestDataCache = <<>>
    /\ InitCaches

NextCertReload ==
    \/ ReloadCACerts
    \/ CertFileRead
    \/ \E hostname \in Hostnames : Connect("https:", hostname)
    \/ UpstreamConnected

SpecCertReload == InitCertReload /\ [][NextCertReload]_vars

(***************************************************************************)
(* The tokenizer called on any text and model name.                        *)
(***************************************************************************)
\* texts of up to MaxText characters, some of them special tokens
Texts == UNION {[1..n -> {"a", SpecialToken}] : n \in 0..MaxText}

\* model names: one tiktoken knows, one it does not, and undefined
TokenModels == {<<"g","p","t">>, <<"o","s","s">>, Undef}

\* countTokens(text, model) is called and returns or throws
CountTokensCall ==
    /\ tokenCall.pc = "ready"
    /\ ~tokenCall.async
    /\ LET result == CountTokensResult(tokenCall.text, tokenCall.model)
       IN  tokenCall' = [tokenCall EXCEPT !.pc = IF result.threw THEN "threw" ELSE "returned",
                                          !.value = result.value]
    /\ UNCHANGED <<listening, modelConfigs, providerConfigs, rq, clientResp, pendingLogs,
                   uuidCounter, writes, logFile, rotated, crashed, route, hdr, caCerts, conn,
                   certsFile, modelFile, certLoad, requestDataCache,
                   responseDataCache, clock, cacheCall, encoderCache, encoderCall>>

\* countTokensAsync(text, model) is called: it returns a pending promise
\* and leaves the count to a setImmediate callback
CountTokensAsyncCall ==
    /\ tokenCall.pc = "ready"
    /\ tokenCall.async
    /\ tokenCall' = [tokenCall EXCEPT !.pc = "scheduled"]
    /\ UNCHANGED <<listening, modelConfigs, providerConfigs, rq, clientResp, pendingLogs,
                   uuidCounter, writes, logFile, rotated, crashed, route, hdr, caCerts, conn,
                   certsFile, modelFile, certLoad, requestDataCache,
                   responseDataCache, clock, cacheCall, encoderCache, encoderCall>>

\* the setImmediate callback of countTokensAsync resolves the promise; what
\* it throws is caught by nothing
CountTokensAsyncImmediate ==
    /\ tokenCall.pc = "scheduled"
    /\ LET result == CountTokensResult(tokenCall.text, tokenCall.model)
       IN  /\ tokenCall' = [tokenCall EXCEPT !.pc = IF result.threw THEN "threw" ELSE "resolved",
                                             !.value = result.value]
           /\ crashed' = result.threw
    /\ UNCHANGED <<listening, modelConfigs, providerConfigs, rq, clientResp, pendingLogs,
                   uuidCounter, writes, logFile, rotated, route, hdr, caCerts, conn,
                   certsFile, modelFile, certLoad, requestDataCache,
                   responseDataCache, clock, cacheCall, encoderCache, encoderCall>>

InitTokens ==
    /\ listening = TRUE
    /\ modelConfigs = LoadModelConfigs(DefaultConfig)
    /\ providerConfigs = LoadProviderConfigs(DefaultConfig)
    /\ logFile = <<>>
    /\ InitRequests
    /\ route = NoRoute
    /\ hdr = NoHdr
    /\ caCerts = <<>>
    /\ conn = NoConn
    /\ certsFile = NoCertsFile
    /\ modelFile = NoModelFile
    /\ certLoad = NoCertLoad
    /\ tokenCall \in [pc : {"ready"}, text : Texts, model : TokenModels, async : BOOLEAN,
                       value : {0}]
    /\ requestDataCache = <<>>
    /\ InitCaches

NextTokens ==
    \/ CountTokensCall
    \/ CountTokensAsyncCall
    \/ CountTokensAsyncImmediate

SpecTokens == InitTokens /\ [][NextTokens]_vars

(***************************************************************************)
(* requestDataProcessor called in any order while time passes: the two     *)
(* transient caches, their ttl and the timer that sweeps them.             *)
(***************************************************************************)
\* the time at which the later half of a filled cache was stored
StartClock == 2

\* the cache after n calls for the ids first, first + 1, ...: the first
\* half of them at time 0, the others at StartClock
FilledCache(first, n) == [i \in 1..n |-> [requestId |-> first + i - 1, timestamp |-> IF 2 * i <= n THEN 0 ELSE StartClock]]

\* the caches the calls start from (request cache, response cache), and the
\* ids of the calls
CacheStarts == {<<<<>>, <<>>>>, <<FilledCache(1, 2), FilledCache(1, 2)>>, <<FilledCache(1, CacheMaxSize - 1), <<>>>>, <<FilledCache(1, CacheMaxSize), <<>>>>, <<FilledCache(EmptyKey, CacheMaxSize), FilledCache(1, CacheMaxSize)>>}

CacheIds == {EmptyKey, 1, CacheMaxSize, CacheMaxSize + 1}

\* how far the clock moves between two events
TickSteps == {1, CacheTtl - StartClock}

\* what a followed call leaves in cacheCall
CallRecord(op, requestId, returned, computed) == [pc |-> "returned", op |-> op, requestId |-> requestId, returned |-> returned, computed |-> computed, at |-> clock, calls |-> cacheCall.calls + 1, ticks |-> cacheCall.ticks]

ProcessRequestDataCall ==
    /\ cacheCall.pc # "none"
    /\ cacheCall.calls < MaxCacheCalls
    /\ \E requestId \in CacheIds :
         LET res == ProcessRequestData(requestDataCache, requestId, clock)
         IN  /\ requestDataCache' = res.cache
             /\ cacheCall' = CallRecord("processRequestData", requestId, res.returned,
                                        res.computed)
    /\ UNCHANGED <<listening, modelConfigs, providerConfigs, rq, clientResp, pendingLogs,
                   uuidCounter, writes, logFile, rotated, crashed, route, hdr, caCerts, conn,
                   certsFile, modelFile, certLoad, tokenCall, responseDataCache, clock,
                   encoderCache, encoderCall>>

ProcessResponseDataCall ==
    /\ cacheCall.pc # "none"
    /\ cacheCall.calls < MaxCacheCalls
    /\ \E requestId \in CacheIds :
         LET res == ProcessResponseData(responseDataCache, requestId, clock)
         IN  /\ responseDataCache' = res.cache
             /\ cacheCall' = CallRecord("processResponseData", requestId, res.returned,
                                        res.computed)
    /\ UNCHANGED <<listening, modelConfigs, providerConfigs, rq, clientResp, pendingLogs,
                   uuidCounter, writes, logFile, rotated, crashed, route, hdr, caCerts, conn,
                   certsFile, modelFile, certLoad, tokenCall, requestDataCache, clock,
                   encoderCache, encoderCall>>

GetCachedRequestDataCall ==
    /\ cacheCall.pc # "none"
    /\ cacheCall.calls < MaxCacheCalls
    /\ \E requestId \in CacheIds :
         cacheCall' = CallRecord("getCachedRequestData", requestId,
                                 GetCachedData(requestDataCache, requestId, clock), FALSE)
    /\ UNCHANGED <<listening, modelConfigs, providerConfigs, rq, clientResp, pendingLogs,
                   uuidCounter, writes, logFile, rotated, crashed, route, hdr, caCerts, conn,
                   certsFile, modelFile, certLoad, tokenCall, requestDataCache,
                   responseDataCache, clock, encoderCache, encoderCall>>

GetCachedResponseDataCall ==
    /\ cacheCall.pc # "none"
    /\ cacheCall.calls < MaxCacheCalls
    /\ \E requestId \in CacheIds :
         cacheCall' = CallRecord("getCachedResponseData", requestId,
                                 GetCachedData(responseDataCache, requestId, clock), FALSE)
    /\ UNCHANGED <<listening, modelConfigs, providerConfigs, rq, clientResp, pendingLogs,
                   uuidCounter, writes, logFile, rotated, crashed, route, hdr, caCerts, conn,
                   certsFile, modelFile, certLoad, tokenCall, requestDataCache,
                   responseDataCache, clock, encoderCache, encoderCall>>

\* the setInterval callback: both caches are swept, at whatever time the
\* timer happens to fire (a second sweep at the same time finds nothing)
SweepTimer ==
    /\ cacheCall.pc \notin {"none", "swept"}
    /\ requestDataCache' = SweepCache(requestDataCache, clock)
    /\ responseDataCache' = SweepCache(responseDataCache, clock)
    /\ cacheCall' = [cacheCall EXCEPT !.pc = "swept", !.at = clock]
    /\ UNCHANGED <<listening, modelConfigs, providerConfigs, rq, clientResp, pendingLogs,
                   uuidCounter, writes, logFile, rotated, crashed, route, hdr, caCerts, conn,
                   certsFile, modelFile, certLoad, tokenCall, clock, encoderCache,
                   encoderCall>>

\* time passes
Tick ==
    /\ cacheCall.pc # "none"
    /\ cacheCall.ticks < MaxTicks
    /\ \E d \in TickSteps : clock' = clock + d
    /\ cacheCall' = [cacheCall EXCEPT !.pc = "ticked", !.ticks = @ + 1]
    /\ UNCHANGED <<listening, modelConfigs, providerConfigs, rq, clientResp, pendingLogs,
                   uuidCounter, writes, logFile, rotated, crashed, route, hdr, caCerts, conn,
                   certsFile, modelFile, certLoad, tokenCall, requestDataCache,
                   responseDataCache, encoderCache, encoderCall>>

InitDataCache ==
    /\ listening = TRUE
    /\ modelConfigs = LoadModelConfigs(DefaultConfig)
    /\ providerConfigs = LoadProviderConfigs(DefaultConfig)
    /\ logFile = <<>>
    /\ InitRequests
    /\ route = NoRoute
    /\ hdr = NoHdr
    /\ caCerts = <<>>
    /\ conn = NoConn
    /\ certsFile = NoCertsFile
    /\ modelFile = NoModelFile
    /\ certLoad = NoCertLoad
    /\ tokenCall = NoTok
    /\ \E start \in CacheStarts :
          /\ requestDataCache = start[1]
          /\ responseDataCache = start[2]
    /\ clock = StartClock
    /\ cacheCall = [pc |-> "ready", op |-> "none", requestId |-> EmptyKey,
                    returned |-> NullEntry, computed |-> FALSE, at |-> StartClock,
                    calls |-> 0, ticks |-> 0]
    /\ encoderCache = <<>>
    /\ encoderCall = NoEncoderCall

NextDataCache ==
    \/ ProcessRequestDataCall
    \/ ProcessResponseDataCall
    \/ GetCachedRequestDataCall
    \/ GetCachedResponseDataCall
    \/ SweepTimer
    \/ Tick

SpecDataCache == InitDataCache /\ [][NextDataCache]_vars

(***************************************************************************)
(* The tokenizer's encoder cache under any calls of getEncoder and         *)
(* countTokens.  encoderCall keeps what the calls did: when each cached    *)
(* model was last obtained, which models were evicted, and the counts      *)
(* returned so far.                                                        *)
(***************************************************************************)
\* the cache after getEncoder was called for the first n numbered models
FilledEncoders(n) == [i \in 1..n |-> NumberedModel(i)]

EncoderFills == {0, EncoderCacheMaxSize - 1, EncoderCacheMaxSize}

\* the model names and texts of the calls
EncoderModels == {NumberedModel(1), NumberedModel(2), NumberedModel(EncoderCacheMaxSize + 1), <<"g","p","t">>, <<"o","s","s">>}

EncoderTexts == {<<"a">>, <<"a", "a", SpecialToken>>}

KeysOf(cache) == {cache[i] : i \in 1..Len(cache)}

\* what a call for `model` leaves in encoderCall, beside its own fields
AfterGetEncoder(call, got, model) == [call EXCEPT !.calls = @ + 1, !.followed = @ + 1, !.model = model, !.attempted = got.attempted, !.constructed = got.attempted /\ ~got.threw, !.evicted = @ \cup (KeysOf(encoderCache) \ KeysOf(got.cache)), !.used = [k \in KeysOf(got.cache) |-> IF k = model THEN call.calls + 1 ELSE @[k]]]

GetEncoderCall ==
    /\ encoderCall.pc # "none"
    /\ encoderCall.followed < MaxEncoderCalls
    /\ \E model \in EncoderModels :
         LET got == GetEncoder(encoderCache, model)
         IN  /\ encoderCache' = got.cache
             /\ encoderCall' = [AfterGetEncoder(encoderCall, got, model) EXCEPT
                                   !.pc = IF got.threw THEN "threw" ELSE "returned",
                                   !.op = "getEncoder"]
    /\ UNCHANGED <<listening, modelConfigs, providerConfigs, rq, clientResp, pendingLogs,
                   uuidCounter, writes, logFile, rotated, crashed, route, hdr, caCerts, conn,
                   certsFile, modelFile, certLoad, tokenCall, requestDataCache,
                   responseDataCache, clock, cacheCall>>

\* countTokens(text, model): getEncoder, encode, and the catch block
CountTokensCachedCall ==
    /\ encoderCall.pc # "none"
    /\ encoderCall.followed < MaxEncoderCalls
    /\ \E model \in EncoderModels : \E text \in EncoderTexts :
         LET got == GetEncoder(encoderCache, model)
             value == CountTokens(text, model)
             earlier == {c \in encoderCall.seen : c.text = text /\ c.model = model}
         IN  /\ encoderCache' = got.cache
             /\ encoderCall' = [AfterGetEncoder(encoderCall, got, model) EXCEPT
                                   !.pc = "returned",
                                   !.op = "countTokens",
                                   !.text = text,
                                   !.value = value,
                                   !.repeat = earlier # {},
                                   !.agrees = \A c \in earlier : c.value = value,
                                   !.seen = @ \cup {[text |-> text, model |-> model,
                                                     value |-> value]}]
    /\ UNCHANGED <<listening, modelConfigs, providerConfigs, rq, clientResp, pendingLogs,
                   uuidCounter, writes, logFile, rotated, crashed, route, hdr, caCerts, conn,
                   certsFile, modelFile, certLoad, tokenCall, requestDataCache,
                   responseDataCache, clock, cacheCall>>

InitEncoders ==
    /\ listening = TRUE
    /\ modelConfigs = LoadModelConfigs(DefaultConfig)
    /\ providerConfigs = LoadProviderConfigs(DefaultConfig)
    /\ logFile = <<>>
    /\ InitRequests
    /\ route = NoRoute
    /\ hdr = NoHdr
    /\ caCerts = <<>>
    /\ conn = NoConn
    /\ certsFile = NoCertsFile
    /\ modelFile = NoModelFile
    /\ certLoad = NoCertLoad
    /\ tokenCall = NoTok
    /\ requestDataCache = <<>>
    /\ responseDataCache = <<>>
    /\ clock = 0
    /\ cacheCall = NoCacheCall
    /\ \E n \in EncoderFills :
          /\ encoderCache = FilledEncoders(n)
          /\ encoderCall = [pc |-> "ready", op |-> "none", text |-> <<>>, model |-> <<>>,
                            value |-> 0, attempted |-> FALSE, constructed |-> FALSE,
                            repeat |-> FALSE,
                            agrees |-> TRUE, seen |-> {}, evicted |-> {}, followed |-> 0,
                            calls |-> n,
                            used |-> [k \in KeysOf(FilledEncoders(n)) |-> Len(k)]]

NextEncoders ==
    \/ GetEncoderCall
    \/ CountTokensCachedCall

SpecEncoders == InitEncoders /\ [][NextEncoders]_vars

(***************************************************************************)
(* What the claims speak of.                                               *)
(***************************************************************************)
\* the 'end' listener of the non-2xx branch has run for r
ErrorRelayed(r) ==
    /\ rq[r].pc = "ended"
    /\ rq[r].proxyResp.statusCode # 0
    /\ ~Is2xx(rq[r].proxyResp.statusCode)

\* the 2xx body of r has ended
StreamEnded(r) ==
    /\ rq[r].pc = "ended"
    /\ Is2xx(rq[r].proxyResp.statusCode)

\* no callback of r is scheduled and none of its log writes is under way
Quiescent(r) ==
    /\ ~rq[r].immPrompt /\ ~rq[r].immFlush /\ ~rq[r].immTokens
    /\ writes[<<r, "request">>].pc \in {"none", "done"}
    /\ writes[<<r, "response">>].pc \in {"none", "done"}

\* every file of the log: the rotated files and the active one
LogFiles == rotated \o <<logFile>>

\* how many lines of the log carry request id `id` and are of kind `kind`
LinesOf(id, kind) ==
    Cardinality({ij \in (1..Len(LogFiles)) \X (1..(MaxLogLines + 2 * NReq)) :
                    /\ ij[2] <= Len(LogFiles[ij[1]])
                    /\ LogFiles[ij[1]][ij[2]] # OldLine
                    /\ writes[LogFiles[ij[1]][ij[2]]].line.requestId = id
                    /\ writes[LogFiles[ij[1]][ij[2]]].line.kind = kind})

\* text holds the element tok
Contains(text, tok) == \E i \in 1..Len(text) : text[i] = tok

\* the client got the unknown-model rejection
RejectedAsUnknownModel(r) ==
    /\ clientResp[r].statusCode = 500
    /\ Contains(clientResp[r].body, "Unsupported or Unknown Model: ")
    /\ ~rq[r].outbound.sent

C2_OneRequestOneResponseLine ==
    \A r \in Reqs :
        ( /\ rq[r].requestId # 0
          /\ rq[r].pc \in {"ended", "connError"} \/ rq[r].timeoutFired
          /\ Quiescent(r)
          /\ ~crashed )
        => /\ LinesOf(rq[r].requestId, "request") = 1
           /\ LinesOf(rq[r].requestId, "response") = 1

(***************************************************************************)
(* C3.  As claimed: for a 2xx response, after all scheduled work of the    *)
(* request has run, its response log line carries the completionTokens     *)
(* computed after the stream ended (and the total).                        *)
(***************************************************************************)
C3_CompletionTokensInResponseLine ==
    \A r \in Reqs :
        (StreamEnded(r) /\ Quiescent(r) /\ writes[<<r, "response">>].pc = "done")
        => /\ "completionTokens" \in DOMAIN writes[<<r, "response">>].line.tokens
           /\ writes[<<r, "response">>].line.tokens["completionTokens"] = rq[r].completionTokens

(***************************************************************************)
(* C4.  As claimed: whenever pendingLogs holds promptTokens = n for a      *)
(* requestId at the moment logResponse runs for it, the response line      *)
(* written has promptTokens = n.                                           *)
(***************************************************************************)
C4_PendingPromptTokensInResponseLine ==
    [][\A r \in Reqs :
          ( /\ writes[<<r, "response">>].pc = "none"
            /\ writes'[<<r, "response">>].pc # "none"
            /\ rq[r].requestId \in DOMAIN pendingLogs
            /\ "promptTokens" \in DOMAIN pendingLogs[rq[r].requestId] )
          => /\ "promptTokens" \in DOMAIN writes'[<<r, "response">>].line.tokens
             /\ writes'[<<r, "response">>].line.tokens["promptTokens"]
                   = pendingLogs[rq[r].requestId]["promptTokens"]]_vars

(***************************************************************************)
(* C5.  As claimed: for one requestId the request line is appended to the  *)
(* log file before the response line, under every interleaving of the two  *)
(* write chains.                                                           *)
(***************************************************************************)
C5_RequestLineBeforeResponseLine ==
    \A r \in Reqs :
        writes[<<r, "response">>].pc = "done" => writes[<<r, "request">>].pc = "done"

(***************************************************************************)
(* C6.  When the upstream answers with a status outside 200..299,          *)
(* logResponse is called once for the request, with a record that carries  *)
(* its requestId, the upstream status and completionTokens = 0; once that  *)
(* write is done the log holds that record once.                           *)
(***************************************************************************)
C6_ErrorResponseLogged ==
    \A r \in Reqs :
        ErrorRelayed(r) =>
            LET w == writes[<<r, "response">>]
            IN  /\ rq[r].logResponseCalls = 1
                /\ w.pc # "none"
                /\ w.line.kind = "response"
                /\ w.line.requestId = rq[r].requestId
                /\ w.line.status = rq[r].proxyResp.statusCode
                /\ "completionTokens" \in DOMAIN w.line.tokens
                /\ w.line.tokens["completionTokens"] = 0
                /\ w.pc = "done" => LinesOf(rq[r].requestId, "response") = 1

\* a 503 has been relayed and its response record is in the log file
C6_Witness ==
    \E r \in Reqs :
        /\ ErrorRelayed(r)
        /\ rq[r].proxyResp.statusCode = 503
        /\ writes[<<r, "response">>].pc = "done"
        /\ writes[<<r, "response">>].line.status = 503
        /\ LinesOf(rq[r].requestId, "response") = 1

(***************************************************************************)
(* C7.  As claimed: a request whose model field is absent or is no         *)
(* identifier of the registry gets status 500 with an error that contains  *)
(* "Unsupported or Unknown Model", and no upstream connection is opened.   *)
(***************************************************************************)
C7_UnknownModelRejected ==
    \A r \in Reqs :
        ( /\ rq[r].pc # "waiting"
          /\ rq[r].body.validJson
          /\ rq[r].body.model \notin DOMAIN modelConfigs )
        => RejectedAsUnknownModel(r)

(***************************************************************************)
(* C8.  As claimed: for every identifier provider/modelKey the loaded      *)
(* configuration defines, resolution yields that entry's modelName and     *)
(* temperature with that provider's baseUrl and completionsPath; every     *)
(* other string fails with the unknown-model error.                        *)
(***************************************************************************)
C8_ResolutionExact ==
    \A r \in Reqs :
        (rq[r].pc # "waiting" /\ rq[r].body.validJson) =>
            LET id == rq[r].body.model
                defining == {ne \in {<<n, i>> : n \in DOMAIN providerConfigs, i \in 1..2} :
                                /\ ne[2] <= Len(ModelsOf(providerConfigs[ne[1]]))
                                /\ FullModelId(ne[1], ModelsOf(providerConfigs[ne[1]])[ne[2]].key) = id}
            IN  IF defining = {} THEN RejectedAsUnknownModel(r)
                ELSE \A ne \in defining :
                        LET p == providerConfigs[ne[1]]
                            e == ModelsOf(p)[ne[2]]
                        IN  /\ rq[r].outbound.sent
                            /\ rq[r].config = [baseUrl |-> p.baseUrl,
                                               completionsPath |-> p.completionsPath,
                                               modelName |-> e.modelName,
                                               temperature |-> e.temperature]

(***************************************************************************)
(* C9.  As claimed: every model identifier that does not hold exactly one  *)
(* '/' is rejected as an unknown model, whatever the registry holds.       *)
(***************************************************************************)
C9_ExactlyOneSlash ==
    \A r \in Reqs :
        ( /\ rq[r].pc # "waiting"
          /\ rq[r].body.validJson
          /\ rq[r].body.model # Undef
          /\ CountSlashes(rq[r].body.model) # 1 )
        => RejectedAsUnknownModel(r)

(***************************************************************************)
(* C10.  As claimed: the temperature of the outbound body is the client's  *)
(* value when that is a number >= 0, and the resolved model's default in   *)
(* every other case (absent, null, negative, not a number).                *)
(***************************************************************************)
C10_EffectiveTemperature ==
    \A r \in Reqs :
        rq[r].outbound.sent =>
            rq[r].outbound.temperature =
                (IF rq[r].body.temperature.t = "num" /\ rq[r].body.temperature.v >= 0
                 THEN rq[r].body.temperature
                 ELSE rq[r].config.temperature)

(***************************************************************************)
(* C11.  As claimed: the body sent upstream has model = the resolved        *)
(* model's modelName, and every other field the client sent, temperature   *)
(* aside, has the value the client sent.                                    *)
(***************************************************************************)
C11_BodyRewrite ==
    \A r \in Reqs :
        rq[r].outbound.sent =>
            /\ rq[r].outbound.model = rq[r].config.modelName
            /\ rq[r].outbound.promptText = rq[r].body.promptText
            /\ rq[r].outbound.seed = rq[r].body.seed

\* the step of r is a failure of the kind named
BodyFailure(r) == rq[r].pc = "waiting" /\ rq'[r].pc = "rejected"

ConnectionFailure(r) == rq[r].pc # "connError" /\ rq'[r].pc = "connError"

UpstreamTimeoutFailure(r) == ~rq[r].timeoutFired /\ rq'[r].timeoutFired

ClientTimeoutFailure(r) == ~rq[r].clientTimeoutFired /\ rq'[r].clientTimeoutFired

\* the JSON texts {error, model, status} with the status given, for the
\* messages and the model names of request r
ErrorBodies(r, status) ==
    { <<"{", "QUOTE", "error", "QUOTE", ":", "QUOTE">> \o e
      \o <<"QUOTE", ",", "QUOTE", "model", "QUOTE", ":", "QUOTE">> \o m
      \o <<"QUOTE", ",", "QUOTE", "status", "QUOTE", ":", ToString(status), "}">> :
        e \in { InvalidJsonMessage, UrlTypeErrorMessage, TimeoutMessage, ConnErrorMessage,
                ClientTimeoutMessage, UnknownModelMessage(rq'[r].body.model) },
        m \in { EmptyText, UnknownText, rq'[r].actualModelName } }

C13_ErrorAfterHeaders ==
    [][\A r \in Reqs :
          ( /\ clientResp[r].headersSent
            /\ \/ ConnectionFailure(r) \/ UpstreamTimeoutFailure(r)
               \/ ClientTimeoutFailure(r) )
          => /\ clientResp'[r].writeHeadCalls = clientResp[r].writeHeadCalls
             /\ clientResp'[r].body = clientResp[r].body
             /\ clientResp'[r].destroyed]_vars

(***************************************************************************)
(* C14.  As claimed: once an upstream timeout or an upstream connection    *)
(* error has been reported to the client, no response log line is started  *)
(* for the request, nothing more is done to the client's response and the  *)
(* process keeps running, whatever the upstream delivers later.            *)
(***************************************************************************)
C14_FailedIsTerminal ==
    [][\A r \in Reqs :
          (rq[r].timeoutFired \/ rq[r].pc = "connError")
          => /\ writes'[<<r, "response">>] = writes[<<r, "response">>]
             /\ clientResp'[r] = clientResp[r]
             /\ crashed' = crashed]_vars

HeaderPresent(headers, name) ==
    \E k \in DOMAIN headers : ToLowerCase(k) = ToLowerCase(name)

(***************************************************************************)
(* C16.  As claimed: after customHeaders has returned, no header named in  *)
(* the remove list is in the outbound headers, and a header the add phase  *)
(* set is found under the target of a replace rule whose source is its     *)
(* name (here: when the provider has one add rule, one replace rule of     *)
(* that source and nothing to remove).                                     *)
(***************************************************************************)
C16_AddReplaceRemove ==
    (hdr.pc = "done" /\ hdr.provider.customHeader.has) =>
        LET rules == hdr.provider.customHeader
        IN  /\ \A i \in 1..Len(rules.remove) : ~HeaderPresent(hdr.headers, rules.remove[i])
            /\ ( /\ Len(rules.add) = 1 /\ Len(rules.replace) = 1 /\ rules.remove = <<>>
                 /\ rules.replace[1].source = rules.add[1].name )
               => /\ rules.replace[1].target \in DOMAIN hdr.headers
                  /\ rules.replace[1].source \notin DOMAIN hdr.headers

\* text holds the placeholder of this property name, letter for letter
HoldsPlaceholderOf(text, propertyName) ==
    \E i \in 1..(Len(text) - 2) :
        text[i] = "{" /\ text[i + 1] = propertyName /\ text[i + 2] = "}"

(***************************************************************************)
(* C17.  As claimed: customHeaders never fails, and the value of a header  *)
(* set by an add rule does not hold the placeholder of the rule (here:     *)
(* when the provider has one add rule and no other rule);                  *)
(* "Bearer {apiKey}" gives "Bearer sk-123" when apiKey is sk-123 and       *)
(* "Bearer " when the provider has no apiKey.                              *)
(***************************************************************************)
C17_Placeholders ==
    /\ hdr.pc # "threw"
    /\ ( /\ hdr.pc = "done" /\ hdr.provider.customHeader.has
         /\ Len(hdr.provider.customHeader.add) = 1
         /\ hdr.provider.customHeader.replace = <<>>
         /\ hdr.provider.customHeader.remove = <<>> )
       => LET rule == hdr.provider.customHeader.add[1]
          IN  /\ rule.name \in DOMAIN hdr.headers
              /\ HoldsPlaceholderOf(rule.value, "apiKey")
                    => ~HoldsPlaceholderOf(hdr.headers[rule.name], "apiKey")
              /\ ( /\ rule.value = <<"Bearer ", "{", "apiKey", "}">>
                   /\ ApiKeyProp \in DOMAIN hdr.provider.props
                   /\ hdr.provider.props[ApiKeyProp] = <<"sk-123">> )
                 => hdr.headers[rule.name] = <<"Bearer ", "sk-123">>
              /\ ( /\ rule.value = <<"Bearer ", "{", "apiKey", "}">>
                   /\ ApiKeyProp \notin DOMAIN hdr.provider.props )
                 => hdr.headers[rule.name] = <<"Bearer ">>

(***************************************************************************)
(* C18.  As claimed, for a provider whose only rule is one replace rule    *)
(* source -> target: when the outbound headers hold the source header,     *)
(* they hold target with its value and no source header after the          *)
(* transform; when they do not, the transform leaves them as they were.    *)
(***************************************************************************)
C18_ReplaceRule ==
    ( /\ hdr.pc = "done" /\ hdr.provider.customHeader.has
      /\ hdr.provider.customHeader.add = <<>>
      /\ hdr.provider.customHeader.remove = <<>>
      /\ Len(hdr.provider.customHeader.replace) = 1 )
    => LET rule == hdr.provider.customHeader.replace[1]
       IN  IF HeaderPresent(hdr.base, rule.source)
           THEN /\ rule.target \in DOMAIN hdr.headers
                /\ \E k \in DOMAIN hdr.base :
                      /\ ToLowerCase(k) = ToLowerCase(rule.source)
                      /\ hdr.headers[rule.target] = hdr.base[k]
                /\ ~HeaderPresent(hdr.headers, rule.source)
           ELSE hdr.headers = hdr.base

\* entry i of the certificate table is of this hostname, with must and with
\* certificate bytes
Qualifies(i, hostname) ==
    /\ caCerts[i].hostname = hostname
    /\ caCerts[i].must
    /\ caCerts[i].cert # UndefinedCert

\* the connection has been set up for an https upstream
HttpsConnection == conn.pc # "none" /\ conn.protocol = "https:"

\* the connection is never set up a second time, nor its verification changed
DecidedOnce ==
    [][conn.pc # "none" =>
          /\ conn'.pc # "none"
          /\ conn'.options = conn.options
          /\ conn'.attempts = conn.attempts
          /\ conn'.hostname = conn.hostname]_vars

C20_MustHasCertificate ==
    (listening /\ certsFile.kind = "array") =>
        /\ Len(caCerts) = Len(certsFile.entries)
        /\ \A i \in 1..Len(caCerts) :
              /\ caCerts[i].hostname = certsFile.entries[i].hostname
              /\ caCerts[i].must => caCerts[i].cert # UndefinedCert
              /\ certsFile.entries[i].certPath \notin ReadablePaths => ~caCerts[i].must
              /\ (certsFile.entries[i].must /\ certsFile.entries[i].certPath \in ReadablePaths)
                    => caCerts[i].must

\* the first entry was configured with must and an unreadable file, and the
\* second entry has been loaded after it with its certificate
C20_Witness ==
    /\ listening
    /\ Len(caCerts) = 2
    /\ certsFile.entries[1].must
    /\ certsFile.entries[1].certPath = UnreadablePath
    /\ ~caCerts[1].must
    /\ caCerts[2].must
    /\ caCerts[2].cert # UndefinedCert

\* loadModelConfigs has been called again and has not built the tables
ReloadFailed == modelFile'.loads > 1 /\ modelFile'.loads # modelFile.loads /\ modelFile'.kind # "object"

(***************************************************************************)
(* C21.  As claimed: a call of loadModelConfigs after the first that fails *)
(* to read or parse its file leaves modelConfigs and providerConfigs as    *)
(* they were and the process running.                                      *)
(***************************************************************************)
C21_ReloadFailureKeepsTables ==
    [][ReloadFailed =>
          /\ modelConfigs' = modelConfigs
          /\ providerConfigs' = providerConfigs
          /\ ~crashed']_vars

\* the identifiers the file last loaded declares
DeclaredIds ==
    UNION { LET raw == modelFile.providers[i]
            IN  IF raw.hasModels
                THEN {FullModelId(raw.name, raw.modelKeys[k]) : k \in 1..Len(raw.modelKeys)}
                ELSE {FullModelId(raw.name, key) :
                        key \in {raw.ownKeys[k] : k \in 1..Len(raw.ownKeys)}
                                \ {<<"baseUrl">>, <<"completionsPath">>, <<"apiKey">>,
                                   <<"customHeader">>}}
          : i \in 1..Len(modelFile.providers) }

(***************************************************************************)
(* C29.  After loadModelConfigs has built the tables from a file, the      *)
(* identifiers of modelConfigs are exactly provider/modelKey for the keys  *)
(* of each provider's models table, or, for a provider without one, for    *)
(* its keys outside {baseUrl, completionsPath, apiKey, customHeader}; no   *)
(* identifier of an earlier load remains.                                  *)
(***************************************************************************)
C29_RegistryIdentifiers ==
    modelFile.kind = "object" => DOMAIN modelConfigs = DeclaredIds

\* a second load has replaced the registry by that of a provider q whose
\* keys are baseUrl, completionsPath, apiKey, customHeader and m
C29_Witness ==
    /\ modelFile.kind = "object"
    /\ modelFile.loads = 2
    /\ Len(modelFile.providers) = 1
    /\ modelFile.providers[1].name = ProviderQ
    /\ ~modelFile.providers[1].hasModels
    /\ Len(modelFile.providers[1].ownKeys) = 5
    /\ DOMAIN modelConfigs = {FullModelId(ProviderQ, KeyM)}

\* the first entry of the hostname in the table has must and a certificate
PinnedIn(table, hostname) ==
    \E i \in 1..Len(table) :
        /\ table[i].hostname = hostname
        /\ table[i].must
        /\ table[i].cert # UndefinedCert
        /\ \A j \in 1..(i - 1) : table[j].hostname # hostname

\* the table loadCACerts is building, complete
NewTable == [i \in 1..Len(certsFile.entries) |-> CaCertsEntry(certsFile.entries[i])]

(***************************************************************************)
(* C22.  As claimed: a request that looks a hostname up while loadCACerts  *)
(* is running sees the whole old table or the whole new one, and for a     *)
(* hostname pinned in both its connection verifies the certificate.        *)
(***************************************************************************)
C22_WholeTableSeen ==
    [][(conn.pc = "none" /\ conn'.pc # "none" /\ certLoad.pc = "loading") =>
          /\ caCerts \in {certLoad.old, NewTable}
          /\ (PinnedIn(certLoad.old, conn'.hostname) /\ PinnedIn(NewTable, conn'.hostname))
                => conn'.options.rejectUnauthorized]_vars

(***************************************************************************)
(* C23.  countTokens never throws and countTokensAsync never rejects nor   *)
(* brings the process down; when no encoder can be constructed for the     *)
(* model name the count is the length of the text.                         *)
(***************************************************************************)
C23_CountNeverFails ==
    /\ tokenCall.pc # "threw"
    /\ tokenCall.pc # "none" => ~crashed
    /\ (tokenCall.pc \in {"returned", "resolved"} /\ tokenCall.model \notin TiktokenModels)
          => tokenCall.value = Len(tokenCall.text)

\* countTokensAsync has resolved for a text of three characters and the
\* model name undefined
C23_Witness ==
    /\ tokenCall.pc = "resolved"
    /\ tokenCall.async
    /\ tokenCall.model = Undef
    /\ Len(tokenCall.text) = 3
    /\ tokenCall.value = 3

UpstreamBytes(r) ==
    IF rq[r].proxyResp.contentEncoding \in {"gzip", "deflate"}
    THEN Tail(rq[r].proxyResp.wire)
    ELSE rq[r].proxyResp.wire

\* the first n elements of a sequence
FirstBytes(bytes, n) == SubSeq(bytes, 1, IF n < Len(bytes) THEN n ELSE Len(bytes))

ResponseLine(r) == writes[<<r, "response">>].line

(***************************************************************************)
(* C26.  The response field of the log line of a 2xx response is           *)
(* "<binary-data>" when the content type holds neither application/json   *)
(* nor text/, "<malformed-json-data>" when it holds application/json and   *)
(* the captured bytes are no JSON, and the captured text otherwise.        *)
(***************************************************************************)
C26_ResponseField ==
    \A r \in Reqs :
        (writes[<<r, "response">>].pc # "none" /\ Is2xx(ResponseLine(r).status)) =>
            LET contentType == rq[r].proxyResp.contentType
                captured == BufferToString(rq[r].responseData)
            IN  /\ ResponseLine(r).response.form = "string"
                /\ ResponseLine(r).response.text =
                      IF contentType \in {ContentTypeBinary, ContentTypeNone}
                      THEN <<"<binary-data>">>
                      ELSE IF contentType = ContentTypeJson /\ ~IsJSONText(captured)
                      THEN <<"<malformed-json-data>">>
                      ELSE captured

\* a line with "<malformed-json-data>" has been written for a JSON response
\* whose captured byte is a lone double quote
C26_Witness ==
    /\ writes[<<1, "response">>].pc = "done"
    /\ ResponseLine(1).status = 200
    /\ rq[1].proxyResp.contentType = ContentTypeJson
    /\ rq[1].responseData = <<"QUOTE">>
    /\ ResponseLine(1).response.text = <<"<malformed-json-data>">>

(***************************************************************************)
(* C27.  A request that has been given a requestId carries that value in   *)
(* the x-request-id of its outbound request, in its request log line, in   *)
(* the x-request-id set on the upstream's response headers and in its      *)
(* response log line; two requests never have the same requestId.          *)
(***************************************************************************)
C27_OneRequestId ==
    /\ \A r \in Reqs :
          rq[r].requestId # 0 =>
             /\ rq[r].outbound.sent => rq[r].outbound.requestId = rq[r].requestId
             /\ writes[<<r, "request">>].pc # "none"
             /\ writes[<<r, "request">>].line.requestId = rq[r].requestId
             /\ rq[r].proxyResp.statusCode # 0 => rq[r].xRequestId = rq[r].requestId
             /\ writes[<<r, "response">>].pc # "none"
                   => ResponseLine(r).requestId = rq[r].requestId
    /\ \A r1, r2 \in Reqs :
          (r1 # r2 /\ rq[r1].requestId # 0 /\ rq[r2].requestId # 0)
             => rq[r1].requestId # rq[r2].requestId

\* two requests have been forwarded and both response lines are written
C27_Witness ==
    /\ rq[1].requestId # 0
    /\ rq[2].requestId # 0
    /\ rq[1].outbound.sent
    /\ rq[2].outbound.sent
    /\ writes[<<1, "response">>].pc = "done"
    /\ writes[<<2, "response">>].pc = "done"

(***************************************************************************)
(* C28.  As claimed: in every interleaving of the log writes, a line is    *)
(* appended to the active log file only while the file is below the        *)
(* threshold.                                                              *)
(***************************************************************************)
C28_NoAppendAtThreshold ==
    [][\A c \in ChainKeys :
          (writes[c].pc = "append" /\ writes'[c].pc = "done")
             => Len(logFile) < MaxLogLines]_vars

(***************************************************************************)
(* C30.  As claimed: once the response stream of a request has ended and   *)
(* its prompt count and its completion count have been computed, the       *)
(* transient cache holds no entry for its requestId.                       *)
(***************************************************************************)
C30_CacheEntryCleared ==
    \A r \in Reqs :
        (/\ StreamEnded(r)
         /\ rq[r].promptAt = "later"
         /\ rq[r].completionAt = "later")
           => ~CacheHas(requestDataCache, rq[r].requestId)

OlderThanTtl(cache, now) == SelectSeq(cache, LAMBDA e : now - e.timestamp > CacheTtl)

YoungerThanTtl(cache, now) == SelectSeq(cache, LAMBDA e : now - e.timestamp < CacheTtl)

(***************************************************************************)
(* C32.  No call of processRequestData, processResponseData,               *)
(* getCachedRequestData or getCachedResponseData returns an entry older    *)
(* than the ttl, and a sweep of the timer removes every entry older than   *)
(* the ttl from both caches, full or not, and no entry younger than it.    *)
(***************************************************************************)
C32_TtlRespected ==
    [][/\ (cacheCall'.pc = "returned" /\ cacheCall'.returned # NullEntry)
             => ~(cacheCall'.at - cacheCall'.returned.timestamp > CacheTtl)
       /\ cacheCall'.pc = "swept"
             => /\ OlderThanTtl(requestDataCache', clock) = <<>>
                /\ OlderThanTtl(responseDataCache', clock) = <<>>
                /\ YoungerThanTtl(requestDataCache', clock) = YoungerThanTtl(requestDataCache, clock)
                /\ YoungerThanTtl(responseDataCache', clock) = YoungerThanTtl(responseDataCache, clock)]_vars

\* a sweep of a cache that is not full has removed the entry older than the
\* ttl and kept the younger one
C32_Witness ==
    /\ cacheCall.pc = "swept"
    /\ clock = CacheTtl + 1
    /\ Len(requestDataCache) = 1
    /\ requestDataCache[1].timestamp = StartClock

\* the cached model that was obtained through getEncoder longest ago
LeastRecentlyObtained == CHOOSE k \in KeysOf(encoderCache) : \A other \in KeysOf(encoderCache) : encoderCall.used[k] <= encoderCall.used[other]

(***************************************************************************)
(* C33.  The encoder cache never holds more than its capacity of encoders; *)
(* a getEncoder that misses with the cache at capacity (and constructs an  *)
(* encoder) evicts the model least recently obtained through getEncoder,   *)
(* and no call evicts any other entry.                                     *)
(***************************************************************************)
C33_LeastRecentlyUsedEvicted ==
    [][/\ Len(encoderCache') <= EncoderCacheMaxSize
       /\ KeysOf(encoderCache) \ KeysOf(encoderCache') =
             IF Len(encoderCache) >= EncoderCacheMaxSize /\ encoderCall'.constructed
             THEN {LeastRecentlyObtained}
             ELSE {}]_vars

\* at capacity, a model was obtained again (which made it the most recently
\* used) and then a miss evicted the one that had become the oldest
C33_Witness ==
    /\ Len(encoderCache) = EncoderCacheMaxSize
    /\ encoderCall.evicted = {NumberedModel(2)}
    /\ LRUHas(encoderCache, NumberedModel(1))
    /\ encoderCache[Len(encoderCache)] = NumberedModel(EncoderCacheMaxSize + 1)

C35_WriteHeadOnce ==
    [][\A r \in Reqs :
          /\ clientResp'[r].writeHeadCalls > clientResp[r].writeHeadCalls
                => ~clientResp[r].headersSent
          /\ (rq[r].proxyResp.statusCode = 0 /\ Is2xx(rq'[r].proxyResp.statusCode))
                => ~clientResp[r].headersSent]_vars

\* request r has ended: by a relayed response, by a connection error, or by
\* an upstream timeout that was reported to the client
Terminal(r) ==
    /\ rq[r].requestId # 0
    /\ \/ rq[r].pc \in {"ended", "connError"}
       \/ rq[r].pc = "forwarded" /\ rq[r].timeoutFired /\ clientResp[r].finished

(***************************************************************************)
(* C36.  As claimed: once a request has ended, in whichever way, and all   *)
(* its scheduled token counts and log writes have run, pendingLogs holds   *)
(* no entry for its requestId.                                             *)
(***************************************************************************)
C36_NoPendingLeak ==
    \A r \in Reqs :
        (Terminal(r) /\ Quiescent(r)) => rq[r].requestId \notin DOMAIN pendingLogs

(***************************************************************************)
(* C37.  In every interleaving of upstream response, stream end, upstream  *)
(* timeout and connection error, logResponse is called at most once for a  *)
(* request, and the log holds at most one response line with its           *)
(* requestId.                                                              *)
(***************************************************************************)
C37_OneResponseLine ==
    \A r \in Reqs :
        /\ rq[r].logResponseCalls <= 1
        /\ rq[r].requestId # 0 => LinesOf(rq[r].requestId, "response") <= 1

\* a request that timed out upstream and then got a non-2xx response has
\* its one response line on disk, beside the line of another request
C37_Witness ==
    /\ rq[1].timeoutFired
    /\ rq[1].pc = "ended"
    /\ rq[1].logResponseCalls = 1
    /\ LinesOf(rq[1].requestId, "response") = 1
    /\ rq[2].logResponseCalls = 1
    /\ writes[<<2, "response">>].pc = "done"

(***************************************************************************)
(* C38.  The request log line of a request carries the model identifier    *)
(* and the temperature of the body as the client sent it (no temperature   *)
(* when the client sent none), also when the outbound body carries the     *)
(* rewritten values, from the call of logRequestBody until the line is on  *)
(* the disk.                                                               *)
(***************************************************************************)
C38_RequestLineAsSent ==
    \A r \in Reqs :
        writes[<<r, "request">>].pc # "none"
           => /\ writes[<<r, "request">>].line.model = rq[r].body.model
              /\ writes[<<r, "request">>].line.model \in DOMAIN modelConfigs
              /\ writes[<<r, "request">>].line.temperature = rq[r].body.temperature

\* the line is on the disk; the outbound body has another model name and
\* another temperature than the client's body
C38_Witness ==
    /\ writes[<<1, "request">>].pc = "done"
    /\ \E i \in 1..Len(logFile) : logFile[i] = <<1, "request">>
    /\ rq[1].outbound.sent
    /\ rq[1].outbound.model # rq[1].body.model
    /\ rq[1].body.temperature = JSNum(-1)
    /\ rq[1].outbound.temperature # rq[1].body.temperature

\* the line of write c is in the active log file or in a rotated one
OnDisk(c) == \E i \in 1..Len(LogFiles) : \E j \in 1..Len(LogFiles[i]) : LogFiles[i][j] = c

(***************************************************************************)
(* C39.  As claimed: in every interleaving of the log writes around the    *)
(* rotation threshold, every line whose append has succeeded is in the     *)
(* active log file or in one of the rotated files.                         *)
(***************************************************************************)
C39_NoLineLost ==
    \A c \in ChainKeys : writes[c].pc = "done" => OnDisk(c)

\* the content codings the response callback decodes
DecodedCodings == {"gzip", "deflate"}

(***************************************************************************)
(* C40.  As claimed: when the proxy has decoded a gzip or deflate upstream *)
(* body, the headers the client received do not declare that coding: no    *)
(* client holds decoded bytes under a content-encoding of gzip or deflate. *)
(***************************************************************************)
C40_NoEncodingHeaderOnDecodedBody ==
    \A r \in Reqs :
        (/\ rq[r].proxyResp.contentEncoding \in DecodedCodings
         /\ clientResp[r].headersSent
         /\ clientResp[r].body # <<>>
         /\ clientResp[r].body = OutputStream(rq[r].proxyResp))
        => clientResp[r].contentEncoding \notin DecodedCodings

====
